---- MODULE Spec2Model ----
(***************************************************************************)
(* Physics offload bridge of bevy_graduation_project: the frame-side       *)
(* synchronization layer (in-process, stream and batching variants), the   *)
(* transport between frame loop and backend, and the simulation backend    *)
(* with its entity -> handle registry.                                     *)
(***************************************************************************)
EXTENDS Integers, Sequences, FiniteSets, TLC

\* ------------------------------------------------------------------ bounds
NumEntities == 2
MaxRequests == 2
MaxFrames == 2
MaxFailures == 1

Entities == 1..NumEntities

\* Option<T>: None is the empty sequence, Some(x) the one-element sequence.
None == <<>>
Some(x) == <<x>>

\* Isometry::default() / Transform::default(): the identity pose.
Identity == 0

\* Gravity values a configuration can carry (0: no gravity).
Gravities == {0, 1}

VARIABLES
  variant,      \* "peer" | "bulkpeer" | "server" | "inproc" | "stream" | "bulk"
  reqChan,      \* messages travelling frame side -> backend (FIFO)
  respChan,     \* responses travelling backend -> frame side (FIFO)
  srvPc,        \* backend loop position: "idle" | "busy" | "closed" | "failed"
  srvCur,       \* the request the backend is processing (None when idle)
  context,      \* the backend's RapierContext
  wire,         \* history: the messages written towards the backend
  reqLog,       \* history: the requests the backend decoded, in order
  respLog,      \* history: types of the responses in emission order
  lastResp,     \* history: the response most recently emitted
  submitted,    \* history: per entity, the create requests written for it
  peerSent,     \* history: number of messages an arbitrary peer has written
  pc,           \* frame thread: the system (or stage end) it is at
  blocked,      \* frame thread: blocked in a send, waiting for the response
  frame,        \* number of frames begun
  ents,         \* the scene: per entity its components and recorded handles
  cmds,         \* deferred commands, applied at the end of the stage
  queue,        \* RequestQueue of the batching variant
  config,       \* frame-side RapierConfiguration (its gravity)
  configChanged,\* change detection of the config resource
  failures,     \* number of sends that returned an error
  issued,       \* history: the requests enqueued or sent, in order
  dispatched,   \* history: the handlers the last bulk response was handed to
  frameStart,   \* history: the scene, the failure count and the config's change
                \* flag when the frame began
  conns,        \* a server with several connections: per connection its
                \* stream, its thread's position and state, and the histories
  profile,      \* backend process: the build profile, "debug" | "release"
  args,         \* backend process: the --latency and --min arguments given
  listener,     \* backend process: "start" | "parsed" | "listening" | "exited"
  simulated_latency, \* backend process: the SimulatedLatency main computed
  handshake,    \* backend process: the connection being accepted, if any
  delay,        \* backend process: what the last simulate_latency call did
  message,      \* wire encoding: the message last handed to serialize
  bytes,        \* wire encoding: what serialize made of it
  decoded,      \* wire encoding: what deserialize made of the bytes
  payload,      \* wire encoding: the compressed bytes that were transmitted
  plugin_configuration \* frame side: RapierPhysicsPluginConfiguration
\* The histories wire, reqLog, respLog, issued and dispatched cover the
\* current frame and are cleared, as frameStart is, when it ends (for a
\* peer, which has no frames, they cover the whole connection); submitted
\* covers the whole run.

codecVars == <<message, bytes, decoded, payload>>
procVars == <<profile, args, listener, simulated_latency, handshake, delay>>
chanVars == <<reqChan, respChan>>
srvVars == <<srvPc, srvCur, context, reqLog, respLog, lastResp>>
frameVars == <<pc, blocked, frame, ents, cmds, queue, config, configChanged,
               failures, issued, dispatched, frameStart>>
vars == <<variant, reqChan, respChan, wire, srvPc, srvCur, context, reqLog,
          respLog, lastResp, submitted, peerSent, pc, blocked, frame, ents, cmds, queue,
          config, configChanged, failures, issued, dispatched, frameStart,
          conns, profile, args, listener, simulated_latency, handshake, delay,
          message, bytes, decoded, payload, plugin_configuration>>

\* ------------------------------------------------------------ wire protocol
\* Request / Response variants; a descriptor carries the entity id and an
\* optional pose.
CreatedBody(id, transform) == [id |-> id, transform |-> transform]
CreatedCollider(id, transform) == [id |-> id, transform |-> transform]

ReqCreateBodies(bodies) == [type |-> "CreateBodies", bodies |-> bodies]
ReqCreateColliders(colliders) == [type |-> "CreateColliders", colliders |-> colliders]
ReqSimulateStep(gravity) == [type |-> "SimulateStep", gravity |-> gravity]

\* The batching variant's protocol: the config is pushed on its own, a step
\* carries only the elapsed time, and requests travel wrapped in one bulk.
ReqUpdateConfig(cfg) == [type |-> "UpdateConfig", config |-> cfg]
ReqSimulateStepDelta == [type |-> "SimulateStep", delta |-> 1]
ReqBulkRequest(requests) == [type |-> "BulkRequest", requests |-> requests]

RespConfigUpdated == [type |-> "ConfigUpdated"]
RespBulkResponse(responses) == [type |-> "BulkResponse", responses |-> responses]
RespRigidBodyHandles(rbs) == [type |-> "RigidBodyHandles", handles |-> rbs]
RespColliderHandles(cols) == [type |-> "ColliderHandles", handles |-> cols]
RespSimulationResult(results) == [type |-> "SimulationResult", result |-> results]

\* ------------------------------------------------------------------ backend
\* RapierContext::default(): no bodies, no colliders, empty registry
\* (handle 0 stands for "no entry").
NoHandle == 0
\* RapierConfiguration::default(): gravity is on.
DefaultGravity == 1
DefaultContext ==
  [bodies |-> <<>>, colliders |-> <<>>, gravity |-> DefaultGravity,
   entity2body |-> [e \in Entities |-> NoHandle],
   entity2collider |-> [e \in Entities |-> NoHandle]]

\* RigidBodyBuilder::new(..).position(transform).user_data(id): the body the
\* backend inserts for one descriptor; without a pose it sits at the identity.
build_body(body) ==
  [user_data |-> body.id,
   position |-> IF body.transform = None THEN Identity ELSE body.transform[1],
   linvel |-> 0]

\* rbs.push((body.id, handle)), cols.push((collider.id, handle))
push_handle_prepends(handles, id, handle) == <<(<<id, handle>>)>> \o handles
push_handle(handles, id, handle) == Append(handles, <<id, handle>>)

\* context.entity2body.insert(Entity::from_bits(body.id), handle)
register_body_forgets(ctx, id, handle) == ctx
register_body(ctx, id, handle) == [ctx EXCEPT !.entity2body[id] = handle]

\* context.entity2collider.insert(Entity::from_bits(collider.id), handle)
register_collider(ctx, id, handle) == [ctx EXCEPT !.entity2collider[id] = handle]

\* context.entity2body.get(&body_entity).copied()
lookup_body_misses(ctx, id) == NoHandle
lookup_body(ctx, id) == ctx.entity2body[id]

\* The body loop of create_bodies: one body inserted, registered and pushed
\* per descriptor, in input order.
RECURSIVE create_bodies_loop(_, _, _)
create_bodies_loop(bodies, ctx, rbs) ==
  IF bodies = <<>>
  THEN [context |-> ctx, response |-> RespRigidBodyHandles(rbs)]
  ELSE LET body == Head(bodies)
           inserted == [ctx EXCEPT !.bodies = Append(@, build_body(body))]
           handle == Len(inserted.bodies)
       IN  create_bodies_loop(Tail(bodies),
                              register_body(inserted, body.id, handle),
                              push_handle(rbs, body.id, handle))

create_bodies_skips_first(bodies, ctx) ==
  IF bodies = <<>> THEN create_bodies_loop(bodies, ctx, <<>>)
  ELSE create_bodies_loop(Tail(bodies), ctx, <<>>)
create_bodies(bodies, ctx) == create_bodies_loop(bodies, ctx, <<>>)

\* The collider the backend inserts for one descriptor: attached to the body
\* registered for the entity (child pose: identity) or free-standing at the
\* descriptor's pose (identity when it has none).
build_collider(collider, body_handle) ==
  IF body_handle # NoHandle
  THEN [user_data |-> collider.id, parent |-> body_handle, position |-> Identity]
  ELSE [user_data |-> collider.id, parent |-> NoHandle,
        position |-> IF collider.transform = None THEN Identity
                     ELSE collider.transform[1]]

RECURSIVE create_colliders_loop(_, _, _)
create_colliders_loop(colliders, ctx, cols) ==
  IF colliders = <<>>
  THEN [context |-> ctx, response |-> RespColliderHandles(cols)]
  ELSE LET collider == Head(colliders)
           body_handle == lookup_body(ctx, collider.id)
           inserted == [ctx EXCEPT
                          !.colliders = Append(@, build_collider(collider, body_handle))]
           handle == Len(inserted.colliders)
       IN  create_colliders_loop(Tail(colliders),
                                 register_collider(inserted, collider.id, handle),
                                 push_handle(cols, collider.id, handle))

create_colliders(colliders, ctx) == create_colliders_loop(colliders, ctx, <<>>)

\* context.step_simulation(gravity, ..): the physics engine is an external
\* collaborator; it is abstracted to a deterministic advance in which every
\* body takes the gravity as its velocity and moves by it.
step_simulation(ctx, gravity) ==
  [ctx EXCEPT !.bodies =
     [h \in DOMAIN ctx.bodies |->
        [ctx.bodies[h] EXCEPT !.linvel = gravity, !.position = @ + gravity]]]

\* for (handle, rb) in context.bodies.iter() { results.insert(handle, ..) }
read_back_moved_only(before, after) ==
  [h \in {b \in DOMAIN after.bodies : after.bodies[b] # before.bodies[b]} |->
     <<after.bodies[h].position, after.bodies[h].linvel>>]
read_back(before, after) ==
  [h \in DOMAIN after.bodies |->
     <<after.bodies[h].position, after.bodies[h].linvel>>]

simulate_step(ctx, gravity) ==
  LET stepped == step_simulation(ctx, gravity)
  IN  [context |-> stepped,
       response |-> RespSimulationResult(read_back(ctx, stepped))]

\* UpdateConfig: the backend replaces its active config and acknowledges.
update_config_backend_accumulates(cfg, ctx) ==
  [context |-> [ctx EXCEPT !.gravity = @ + cfg], response |-> RespConfigUpdated]
update_config_backend(cfg, ctx) ==
  [context |-> [ctx EXCEPT !.gravity = cfg], response |-> RespConfigUpdated]

\* The match on the decoded request in handle_connection (and in the
\* simulation thread of the in-process variant); the batching backend adds
\* UpdateConfig, the step by elapsed time under its active config, and the
\* bulk request, whose elements are processed one after the other as if each
\* had been sent on its own.
RECURSIVE response_of(_, _)
RECURSIVE bulk_request_loop(_, _, _)
bulk_request_loop(requests, ctx, responses) ==
  IF requests = <<>>
  THEN [context |-> ctx, response |-> RespBulkResponse(responses)]
  ELSE LET out == response_of(Head(requests), ctx)
       IN  bulk_request_loop(Tail(requests), out.context,
                             Append(responses, out.response))

bulk_request_newest_first(requests, ctx) ==
  bulk_request_loop([i \in 1..Len(requests) |-> requests[Len(requests) + 1 - i]],
                    ctx, <<>>)
bulk_request(requests, ctx) == bulk_request_loop(requests, ctx, <<>>)

response_of(req, ctx) ==
  CASE req.type = "CreateBodies" -> create_bodies(req.bodies, ctx)
    [] req.type = "CreateColliders" -> create_colliders(req.colliders, ctx)
    [] req.type = "SimulateStep" ->
         simulate_step(ctx, IF "gravity" \in DOMAIN req THEN req.gravity
                            ELSE ctx.gravity)
    [] req.type = "UpdateConfig" -> update_config_backend(req.config, ctx)
    [] req.type = "BulkRequest" -> bulk_request(req.requests, ctx)

\* ------------------------------------------------------ backend connection
\* Messages on the wire towards the backend: a binary frame that decodes to
\* a Request, a binary frame that does not, a close frame, any other frame.
Binary(req) == [kind |-> "binary", decodes |-> TRUE, req |-> req]
Malformed == [kind |-> "binary", decodes |-> FALSE]
CloseFrame == [kind |-> "close"]
TextFrame == [kind |-> "text"]
PingFrame == [kind |-> "ping"]
PongFrame == [kind |-> "pong"]

\* The variant of the response each request variant is answered with.
Matching(type) ==
  CASE type = "CreateBodies" -> "RigidBodyHandles"
    [] type = "CreateColliders" -> "ColliderHandles"
    [] type = "SimulateStep" -> "SimulationResult"
    [] type = "UpdateConfig" -> "ConfigUpdated"
    [] type = "BulkRequest" -> "BulkResponse"

\* websocket.read_message()? (req_rx.recv() in the simulation thread): which
\* message of the stream the blocked backend takes next.
next_message_takes_newest(chan) == chan[Len(chan)]
next_message(chan) == Head(chan)

rest_after_read(chan) ==
  LET m == next_message(chan)
      i == CHOOSE k \in 1..Len(chan) : chan[k] = m
  IN  SubSeq(chan, 1, i - 1) \o SubSeq(chan, i + 1, Len(chan))

\* Where the loop stands once it has taken a message: at the processing of
\* the decoded request; returned Ok(()) on a close; returned an error on a
\* binary message that does not decode (deserialize(..)?) and on any other
\* message.
after_message_skips_others(msg) ==
  IF msg.kind = "binary" THEN (IF msg.decodes THEN "busy" ELSE "failed")
  ELSE IF msg.kind = "close" THEN "closed" ELSE "idle"
after_message_drops_malformed(msg) ==
  IF msg.kind = "binary" THEN (IF msg.decodes THEN "busy" ELSE "idle")
  ELSE IF msg.kind = "close" THEN "closed" ELSE "failed"
after_message(msg) ==
  IF msg.kind = "binary" /\ msg.decodes THEN "busy"
  ELSE IF msg.kind = "close" THEN "closed" ELSE "failed"

\* One pass of the backend loop up to the decoded request: a binary message
\* is decoded (failure ends the connection with an error), a close message
\* ends the connection, any other message ends it with an error.
ServerRead ==
  /\ srvPc = "idle"
  /\ reqChan # <<>>
  /\ LET msg == next_message(reqChan)
     IN  /\ reqChan' = rest_after_read(reqChan)
         /\ IF msg.kind = "binary" /\ msg.decodes
            THEN /\ srvPc' = "busy"
                 /\ srvCur' = Some(msg.req)
                 /\ reqLog' = Append(reqLog, msg.req)
            ELSE /\ srvPc' = after_message(msg)
                 /\ UNCHANGED <<srvCur, reqLog>>
  /\ UNCHANGED <<procVars, codecVars, plugin_configuration, variant, conns, respChan, wire, context, respLog, lastResp, submitted,
                 peerSent, frameVars>>

\* The rest of the pass: the request is processed against the context and
\* its response is written back.
emit_nothing(chan, response) == chan
emit(chan, response) == Append(chan, response)

\* bounded(1): a channel of the in-process variant holds one message, and a
\* send to a full channel blocks; the sockets of the other variants buffer.
ChannelCapacity == 1
has_room(chan) == variant = "inproc" => Len(chan) < ChannelCapacity

ServerReply ==
  /\ srvPc = "busy"
  /\ has_room(respChan)
  /\ LET out == response_of(srvCur[1], context)
     IN  /\ context' = out.context
         /\ respChan' = emit(respChan, out.response)
         /\ respLog' = IF respChan' = respChan THEN respLog
                       ELSE Append(respLog, out.response.type)
         /\ lastResp' = Some(out.response)
  /\ srvPc' = "idle"
  /\ srvCur' = None
  /\ UNCHANGED <<procVars, codecVars, plugin_configuration, variant, conns, reqChan, wire, reqLog, submitted, peerSent, frameVars>>

\* ------------------------------------------------------- an arbitrary peer
\* The backend is a network server: any peer may connect and write any
\* messages, pipelined or not; whether it reads the responses cannot be
\* observed by the backend, so respChan keeps everything written to it.
\* Descriptor lists name the entities in any order, each at most once or one
\* of them twice.
RECURSIVE Arrangements(_)
Arrangements(S) ==
  {<<>>} \cup UNION {{<<e>> \o t : t \in Arrangements(S \ {e})} : e \in S}

Posed(ids, posed) ==
  [i \in 1..Len(ids) |->
     [id |-> ids[i], transform |-> IF posed THEN Some(ids[i]) ELSE None]]

\* Lists that name one entity twice.
Repeats == {<<e, e>> : e \in Entities}

DescriptorLists ==
  {Posed(ids, posed) : ids \in Arrangements(Entities) \cup Repeats, posed \in BOOLEAN}

PeerRequests ==
  {ReqCreateBodies(l) : l \in DescriptorLists}
    \cup {ReqCreateColliders(l) : l \in DescriptorLists}
    \cup {ReqSimulateStep(g) : g \in Gravities}

PeerMessages ==
  {Binary(r) : r \in PeerRequests}
    \cup {Malformed, CloseFrame, TextFrame, PingFrame, PongFrame}

PeerSend ==
  /\ variant = "peer"
  /\ peerSent < MaxRequests
  /\ \E m \in PeerMessages :
       /\ reqChan' = Append(reqChan, m)
       /\ wire' = Append(wire, m)
  /\ peerSent' = peerSent + 1
  /\ UNCHANGED <<procVars, codecVars, plugin_configuration, variant, conns, respChan, srvVars, submitted, frameVars>>

InitBackend ==
  /\ reqChan = <<>>
  /\ respChan = <<>>
  /\ srvPc = "idle"
  /\ srvCur = None
  /\ context = DefaultContext
  /\ wire = <<>>
  /\ reqLog = <<>>
  /\ respLog = <<>>
  /\ lastResp = None

\* The backend process in the state the other specifications start from:
\* started without latency arguments, listening, no handshake under way.
NoArgs == [latency |-> None, min |-> None]
NoLatency == [kind |-> "None"]

AlreadyListening ==
  /\ profile = "release"
  /\ args = NoArgs
  /\ listener = "listening"
  /\ simulated_latency = NoLatency
  /\ handshake = None
  /\ delay = None

\* RapierPhysicsPluginConfiguration: the resource the plugin inserts when the
\* application has not inserted one, and the values an application can insert.
default_configuration == [bulk_requests |-> TRUE, compression |-> TRUE]

Configurations == [bulk_requests : BOOLEAN, compression : BOOLEAN]

DefaultConfiguration == plugin_configuration = default_configuration

\* No message has been serialized.
NothingEncoded ==
  /\ message = None
  /\ bytes = None
  /\ decoded = None
  /\ payload = None

\* The frame side before the first frame: an empty scene, the default
\* config freshly inserted (so it counts as changed), an empty queue.
InitFrameSide ==
  /\ pc = "update"
  /\ blocked = FALSE
  /\ frame = 0
  /\ ents = [e \in Entities |->
               [alive |-> FALSE, comps |-> {}, body |-> NoHandle,
                collider |-> NoHandle, translation |-> Identity, scale |-> 1,
                velocity |-> 0, velocity_changed |-> FALSE]]
  /\ cmds = <<>>
  /\ queue = <<>>
  /\ config = DefaultGravity
  /\ configChanged = TRUE
  /\ failures = 0
  /\ issued = <<>>
  /\ dispatched = <<>>
  /\ frameStart = None

InitServer ==
  /\ variant = "peer"
  /\ peerSent = 0
  /\ submitted = [e \in Entities |-> [bodies |-> 0, colliders |-> 0]]
  /\ conns = <<>>
  /\ AlreadyListening
  /\ NothingEncoded
  /\ DefaultConfiguration
  /\ InitBackend
  /\ InitFrameSide

NextServer == PeerSend \/ ServerRead \/ ServerReply

SpecServer == InitServer /\ [][NextServer]_vars

\* ------------------------------------------- a peer of the batching backend
\* The batching backend answers bulks: any peer may write bulk requests that
\* wrap a selection of requests in any order, the empty bulk included. The
\* selections are drawn from a config update, a creation of bodies and a
\* step, or from creations of bodies and of colliders and a step.
BulkElements ==
  {{ReqUpdateConfig(0),
    ReqCreateBodies(Posed([i \in 1..NumEntities |-> i], TRUE)),
    ReqSimulateStepDelta},
   {ReqCreateBodies(Posed([i \in 1..NumEntities |-> i], TRUE)),
    ReqCreateColliders(Posed([i \in 1..NumEntities |-> i], FALSE)),
    ReqSimulateStepDelta}}

BulkLists == UNION {Arrangements(S) : S \in BulkElements}

BulkPeerSend ==
  /\ variant = "bulkpeer"
  /\ peerSent < MaxRequests
  /\ \E l \in BulkLists :
       /\ reqChan' = Append(reqChan, Binary(ReqBulkRequest(l)))
       /\ wire' = Append(wire, Binary(ReqBulkRequest(l)))
  /\ peerSent' = peerSent + 1
  /\ UNCHANGED <<procVars, codecVars, plugin_configuration, variant, conns, respChan, srvVars, submitted, frameVars>>

InitBulkServer ==
  /\ variant = "bulkpeer"
  /\ peerSent = 0
  /\ submitted = [e \in Entities |-> [bodies |-> 0, colliders |-> 0]]
  /\ conns = <<>>
  /\ AlreadyListening
  /\ NothingEncoded
  /\ DefaultConfiguration
  /\ InitBackend
  /\ InitFrameSide

NextBulkServer == BulkPeerSend \/ ServerRead \/ ServerReply

SpecBulkServer == InitBulkServer /\ [][NextBulkServer]_vars

\* ------------------------------------------------ a server, its connections
\* main accepts connections and spawns one thread per connection; each runs
\* handle_connection on its own stream with the RapierContext it creates.
Connections == {"A", "B"}

\* What the peers of this server write: a creation of bodies, a step, a
\* binary message that does not decode, a close.
ConnMessages ==
  {Binary(ReqCreateBodies(Posed([i \in 1..NumEntities |-> i], TRUE))),
   Binary(ReqSimulateStep(1)),
   Malformed,
   CloseFrame}

\* std::thread::spawn(move || handle_connection(stream, ..)) up to the
\* loop: the thread owns a fresh context.
Accept(c) ==
  /\ conns[c].srvPc = "unconnected"
  /\ conns' = [conns EXCEPT ![c].srvPc = "idle", ![c].context = DefaultContext]
  /\ UNCHANGED <<procVars, codecVars, plugin_configuration, variant, chanVars, wire, submitted, srvVars, peerSent, frameVars>>

ConnSend(c) ==
  /\ conns[c].srvPc # "unconnected"
  /\ Len(conns[c].wire) < MaxRequests
  /\ \E m \in ConnMessages :
       conns' = [conns EXCEPT ![c].reqChan = Append(@, m),
                              ![c].wire = Append(@, m)]
  /\ UNCHANGED <<procVars, codecVars, plugin_configuration, variant, chanVars, wire, submitted, srvVars, peerSent, frameVars>>

\* The pass of handle_connection's loop in the thread of connection c, up to
\* the decoded request.
ConnRead(c) ==
  /\ conns[c].srvPc = "idle"
  /\ conns[c].reqChan # <<>>
  /\ LET msg == next_message(conns[c].reqChan)
     IN  conns' = [conns EXCEPT
           ![c].reqChan = rest_after_read(conns[c].reqChan),
           ![c].srvPc = after_message(msg),
           ![c].srvCur = IF msg.kind = "binary" /\ msg.decodes
                         THEN Some(msg.req) ELSE @,
           ![c].reqLog = IF msg.kind = "binary" /\ msg.decodes
                         THEN Append(@, msg.req) ELSE @]
  /\ UNCHANGED <<procVars, codecVars, plugin_configuration, variant, chanVars, wire, submitted, srvVars, peerSent, frameVars>>

\* `&mut context`: the context the thread of connection c works on is the
\* one it created.
context_is_shared(cs, c) == cs["A"].context
context_of(cs, c) == cs[c].context

\* The rest of the pass: the request is processed and answered.
ConnReply(c) ==
  /\ conns[c].srvPc = "busy"
  /\ LET out == response_of(conns[c].srvCur[1], context_of(conns, c))
     IN  conns' = [conns EXCEPT
           ![c].context = out.context,
           ![c].respChan = emit(@, out.response),
           ![c].srvPc = "idle",
           ![c].srvCur = None]
  /\ UNCHANGED <<procVars, codecVars, plugin_configuration, variant, chanVars, wire, submitted, srvVars, peerSent, frameVars>>

InitConnections ==
  /\ variant = "server"
  /\ peerSent = 0
  /\ submitted = [e \in Entities |-> [bodies |-> 0, colliders |-> 0]]
  /\ conns = [c \in Connections |->
               [reqChan |-> <<>>, respChan |-> <<>>, srvPc |-> "unconnected",
                srvCur |-> None, context |-> DefaultContext, wire |-> <<>>,
                reqLog |-> <<>>]]
  /\ AlreadyListening
  /\ NothingEncoded
  /\ DefaultConfiguration
  /\ InitBackend
  /\ InitFrameSide

NextConnections ==
  \E c \in Connections : Accept(c) \/ ConnSend(c) \/ ConnRead(c) \/ ConnReply(c)

SpecConnections == InitConnections /\ [][NextConnections]_vars

\* --------------------------------------------------------------- frame side
\* The systems of one frame in the order the plugin's stages run them: the
\* SyncBackend stage, the end of that stage (deferred commands applied), the
\* Writeback stage, the end of that stage.
schedule_colliders_first(v) ==
  IF v = "bulk"
  THEN <<"update_config", "init_colliders", "init_rigid_bodies", "simulate_step",
         "apply_sync", "process_requests", "apply_writeback">>
  ELSE <<"init_colliders", "init_rigid_bodies", "apply_sync", "writeback",
         "apply_writeback">>
schedule(v) ==
  IF v = "bulk"
  THEN <<"update_config", "init_rigid_bodies", "init_colliders", "simulate_step",
         "apply_sync", "process_requests", "apply_writeback">>
  ELSE <<"init_rigid_bodies", "init_colliders", "apply_sync", "writeback",
         "apply_writeback">>

\* The step that follows `step` in the frame; after the last one the frame
\* is over and the user's systems of the next frame run.
after(v, step) ==
  LET sch == schedule(v)
      i == CHOOSE k \in 1..Len(sch) : sch[k] = step
  IN  IF i = Len(sch) THEN "update" ELSE sch[i + 1]

\* Result<Response>
Ok(resp) == [ok |-> TRUE, value |-> resp]
Err == [ok |-> FALSE]

\* Scene set-up and user systems: entities are spawned, at start-up or in a
\* later frame, as a ball (body and collider) or as a box (collider only),
\* and the gravity of the config may be changed. A spawned entity's Transform
\* has a translation and a scale of its own (Transform::default(): scale 1).
Archetypes ==
  {{"RigidBody", "Collider", "Transform", "Velocity"},
   {"Collider", "Transform"}}

Spawn ==
  /\ pc = "update"
  /\ frame < MaxFrames
  /\ \E e \in Entities, comps \in Archetypes :
       /\ ~ents[e].alive
       /\ \A d \in Entities : d < e => ents[d].alive
       /\ ents' = [ents EXCEPT ![e] = [@ EXCEPT !.alive = TRUE, !.comps = comps,
                                          !.translation = IF "Transform" \in comps
                                                          THEN e ELSE Identity,
                                          !.scale = IF "Transform" \in comps
                                                    THEN e + 1 ELSE 1]]
  /\ UNCHANGED <<procVars, codecVars, plugin_configuration, variant, conns, frameStart, chanVars, wire, submitted, srvVars, peerSent, pc, blocked, frame,
                 cmds, queue, config, configChanged, failures, issued, dispatched>>

SetGravity ==
  /\ pc = "update"
  /\ frame < MaxFrames
  /\ \E g \in Gravities \ {config} : config' = g
  /\ configChanged' = TRUE
  /\ UNCHANGED <<procVars, codecVars, plugin_configuration, variant, conns, frameStart, chanVars, wire, submitted, srvVars, peerSent, pc, blocked, frame,
                 ents, cmds, queue, failures, issued, dispatched>>

BeginFrame ==
  /\ pc = "update"
  /\ frame < MaxFrames
  /\ frame' = frame + 1
  /\ pc' = schedule(variant)[1]
  /\ frameStart' = Some([ents |-> ents, failures |-> failures,
                         configChanged |-> configChanged])
  /\ UNCHANGED <<procVars, codecVars, plugin_configuration, variant, conns, chanVars, wire, submitted, srvVars, peerSent, blocked,
                 ents, cmds, queue, config, configChanged, failures, issued,
                 dispatched>>

\* request_queue.0.push(req)
Enqueue(req) ==
  /\ queue' = Append(queue, req)
  /\ issued' = Append(issued, [how |-> "enqueue", req |-> req])

\* The entity ids named by the body (collider) descriptors of a request, a
\* bulk request naming those of its elements.
RECURSIVE Named(_, _)
Named(req, type) ==
  CASE req.type = "BulkRequest" ->
         UNION {Named(req.requests[i], type) : i \in 1..Len(req.requests)}
    [] req.type = "CreateBodies" /\ type = "CreateBodies" ->
         {req.bodies[i].id : i \in 1..Len(req.bodies)}
    [] req.type = "CreateColliders" /\ type = "CreateColliders" ->
         {req.colliders[i].id : i \in 1..Len(req.colliders)}
    [] OTHER -> {}

Submit(req, sub) ==
  [e \in Entities |->
     [bodies |-> sub[e].bodies + (IF e \in Named(req, "CreateBodies") THEN 1 ELSE 0),
      colliders |-> sub[e].colliders
                      + (IF e \in Named(req, "CreateColliders") THEN 1 ELSE 0)]]

\* socket.read_message()? / receiver.recv(): the send does not return before
\* the response (or a failure) has come back.
wait_for_response_skipped == FALSE
wait_for_response == TRUE

\* send_request up to its blocking read: the encoded request is written and
\* the frame thread blocks; or (networked variants) encoding or writing fails
\* and the error is returned at once.
SendRequest(req) ==
  /\ issued' = Append(issued, [how |-> "send", req |-> req])
  /\ \/ /\ has_room(reqChan)
        /\ reqChan' = Append(reqChan, Binary(req))
        /\ wire' = Append(wire, Binary(req))
        /\ submitted' = Submit(req, submitted)
        /\ IF wait_for_response
           THEN blocked' = TRUE /\ pc' = pc
           ELSE blocked' = FALSE /\ pc' = after(variant, pc)
        /\ UNCHANGED failures
     \/ /\ variant # "inproc"
        /\ failures < MaxFailures
        /\ failures' = failures + 1
        /\ pc' = after(variant, pc)
        /\ UNCHANGED <<reqChan, wire, submitted, blocked>>

\* The outcomes of the blocking read once the backend has replied: the
\* decoded response, or (networked variants) a read or decode error.
Outcomes ==
  {Ok(Head(respChan))}
    \cup (IF variant # "inproc" /\ failures < MaxFailures THEN {Err} ELSE {})

Returned(resp) ==
  /\ respChan' = Tail(respChan)
  /\ blocked' = FALSE
  /\ failures' = failures + (IF resp.ok THEN 0 ELSE 1)

\* A query iterates in storage order, which need not be the order of the
\* entity ids: the matching entities by ascending and by descending id.
RECURSIVE Ascending(_)
Ascending(S) ==
  IF S = {} THEN <<>>
  ELSE LET least == CHOOSE e \in S : \A d \in S : e <= d
       IN  <<least>> \o Ascending(S \ {least})

Reverse(q) == [i \in 1..Len(q) |-> q[Len(q) + 1 - i]]

QueryOrders(S) == {Ascending(S), Reverse(Ascending(S))}

\* Query<.., Without<RapierRigidBodyHandle>> / Without<RapierColliderHandle>
bodies_without_handle ==
  {e \in Entities : /\ ents[e].alive
                    /\ "RigidBody" \in ents[e].comps
                    /\ ents[e].body = NoHandle}
colliders_without_handle ==
  {e \in Entities : /\ ents[e].alive
                    /\ "Collider" \in ents[e].comps
                    /\ ents[e].collider = NoHandle}

\* transform.map(|t| transform_to_iso(&t.compute_transform(), physics_scale))
pose_of(e) ==
  IF "Transform" \in ents[e].comps THEN Some(ents[e].translation) ELSE None

\* update_config (batching variant)
is_changed_ignored(flag) == TRUE
is_changed(flag) == flag

UpdateConfig ==
  /\ pc = "update_config"
  /\ IF is_changed(configChanged)
     THEN Enqueue(ReqUpdateConfig(config))
     ELSE UNCHANGED <<queue, issued>>
  /\ configChanged' = FALSE
  /\ pc' = after(variant, pc)
  /\ UNCHANGED <<procVars, codecVars, plugin_configuration, variant, conns, frameStart, chanVars, wire, submitted, srvVars, peerSent, blocked, frame, ents,
                 cmds, config, failures, dispatched>>

\* init_rigid_bodies: the batching variant enqueues a non-empty CreateBodies,
\* the stream variant sends a non-empty one, the in-process variant sends it
\* even when empty.
InitRigidBodies ==
  /\ pc = "init_rigid_bodies"
  /\ ~blocked
  /\ \E order \in QueryOrders(bodies_without_handle) :
       LET created_bodies ==
             [i \in 1..Len(order) |-> CreatedBody(order[i], pose_of(order[i]))]
           req == ReqCreateBodies(created_bodies)
       IN  IF variant # "inproc" /\ created_bodies = <<>>
           THEN /\ pc' = after(variant, pc)
                /\ UNCHANGED <<chanVars, wire, submitted, blocked, queue, failures, issued>>
           ELSE IF variant = "bulk"
           THEN /\ Enqueue(req)
                /\ pc' = after(variant, pc)
                /\ UNCHANGED <<chanVars, wire, submitted, blocked, failures>>
           ELSE /\ SendRequest(req)
                /\ UNCHANGED <<respChan, queue>>
  /\ UNCHANGED <<procVars, codecVars, plugin_configuration, variant, conns, frameStart, srvVars, peerSent, frame, ents, cmds, config,
                 configChanged, dispatched>>

\* handle_init_rigid_bodies_response: one deferred insert of
\* RapierRigidBodyHandle per returned pair.
handle_init_rigid_bodies_response(resp, commands) ==
  IF resp.ok /\ resp.value.type = "RigidBodyHandles"
  THEN commands \o [i \in 1..Len(resp.value.handles) |->
                      [component |-> "RapierRigidBodyHandle",
                       entity |-> resp.value.handles[i][1],
                       handle |-> resp.value.handles[i][2]]]
  ELSE commands

InitRigidBodiesResponse ==
  /\ pc = "init_rigid_bodies"
  /\ blocked
  /\ respChan # <<>>
  /\ \E resp \in Outcomes :
       /\ cmds' = handle_init_rigid_bodies_response(resp, cmds)
       /\ Returned(resp)
  /\ pc' = after(variant, pc)
  /\ UNCHANGED <<procVars, codecVars, plugin_configuration, variant, conns, frameStart, reqChan, wire, submitted, srvVars, peerSent, frame, ents, queue,
                 config, configChanged, issued, dispatched>>

\* init_colliders
InitColliders ==
  /\ pc = "init_colliders"
  /\ ~blocked
  /\ \E order \in QueryOrders(colliders_without_handle) :
       LET created_colliders ==
             [i \in 1..Len(order) |-> CreatedCollider(order[i], pose_of(order[i]))]
           req == ReqCreateColliders(created_colliders)
       IN  IF variant # "inproc" /\ created_colliders = <<>>
           THEN /\ pc' = after(variant, pc)
                /\ UNCHANGED <<chanVars, wire, submitted, blocked, queue, failures, issued>>
           ELSE IF variant = "bulk"
           THEN /\ Enqueue(req)
                /\ pc' = after(variant, pc)
                /\ UNCHANGED <<chanVars, wire, submitted, blocked, failures>>
           ELSE /\ SendRequest(req)
                /\ UNCHANGED <<respChan, queue>>
  /\ UNCHANGED <<procVars, codecVars, plugin_configuration, variant, conns, frameStart, srvVars, peerSent, frame, ents, cmds, config,
                 configChanged, dispatched>>

handle_init_colliders_response(resp, commands) ==
  IF resp.ok /\ resp.value.type = "ColliderHandles"
  THEN commands \o [i \in 1..Len(resp.value.handles) |->
                      [component |-> "RapierColliderHandle",
                       entity |-> resp.value.handles[i][1],
                       handle |-> resp.value.handles[i][2]]]
  ELSE commands

InitCollidersResponse ==
  /\ pc = "init_colliders"
  /\ blocked
  /\ respChan # <<>>
  /\ \E resp \in Outcomes :
       /\ cmds' = handle_init_colliders_response(resp, cmds)
       /\ Returned(resp)
  /\ pc' = after(variant, pc)
  /\ UNCHANGED <<procVars, codecVars, plugin_configuration, variant, conns, frameStart, reqChan, wire, submitted, srvVars, peerSent, frame, ents, queue,
                 config, configChanged, issued, dispatched>>

\* simulate_step (batching variant)
SimulateStep ==
  /\ pc = "simulate_step"
  /\ Enqueue(ReqSimulateStepDelta)
  /\ pc' = after(variant, pc)
  /\ UNCHANGED <<procVars, codecVars, plugin_configuration, variant, conns, frameStart, chanVars, wire, submitted, srvVars, peerSent, blocked, frame, ents,
                 cmds, config, configChanged, failures, dispatched>>

\* End of a stage: the deferred commands are applied in order.
RECURSIVE apply_commands(_, _)
apply_commands(commands, es) ==
  IF commands = <<>> THEN es
  ELSE LET c == Head(commands)
       IN  apply_commands(Tail(commands),
             IF c.component = "RapierRigidBodyHandle"
             THEN [es EXCEPT ![c.entity].body = c.handle]
             ELSE [es EXCEPT ![c.entity].collider = c.handle])

ApplyBuffers ==
  /\ pc \in {"apply_sync", "apply_writeback"}
  /\ ents' = apply_commands(cmds, ents)
  /\ cmds' = <<>>
  /\ pc' = after(variant, pc)
  /\ IF pc' = "update"
     THEN /\ wire' = <<>>
          /\ reqLog' = <<>>
          /\ respLog' = <<>>
          /\ issued' = <<>>
          /\ dispatched' = <<>>
          /\ frameStart' = None
     ELSE UNCHANGED <<wire, reqLog, respLog, issued, dispatched, frameStart>>
  /\ UNCHANGED <<procVars, codecVars, plugin_configuration, variant, conns, chanVars, srvPc, srvCur, context, lastResp, submitted,
                 peerSent, blocked, frame, queue, config, configChanged, failures>>

\* The body of the writeback loop for one entity with a recorded body
\* handle: the pose is overwritten, the velocity only when it differs;
\* assigning through the mutable reference marks the Velocity component as
\* changed, whatever the value assigned (velocity_changed: whether the last
\* writeback of the entity did so).
write_back_replaces_transform(ent, new) ==
  [ent EXCEPT
     !.translation = IF "Transform" \in ent.comps THEN new[1] ELSE @,
     !.scale = 1,
     !.velocity = IF "Velocity" \in ent.comps /\ @ # new[2] THEN new[2] ELSE @,
     !.velocity_changed = "Velocity" \in ent.comps /\ ent.velocity # new[2]]
write_back_keeps_pose(ent, new) ==
  [ent EXCEPT
     !.velocity = IF "Velocity" \in ent.comps /\ @ # new[2] THEN new[2] ELSE @,
     !.velocity_changed = "Velocity" \in ent.comps /\ ent.velocity # new[2]]
write_back_always_assigns(ent, new) ==
  [ent EXCEPT
     !.translation = IF "Transform" \in ent.comps THEN new[1] ELSE @,
     !.velocity = IF "Velocity" \in ent.comps THEN new[2] ELSE @,
     !.velocity_changed = "Velocity" \in ent.comps]
write_back(ent, new) ==
  [ent EXCEPT
     !.translation = IF "Transform" \in ent.comps THEN new[1] ELSE @,
     !.velocity = IF "Velocity" \in ent.comps /\ @ # new[2] THEN new[2] ELSE @,
     !.velocity_changed = "Velocity" \in ent.comps /\ ent.velocity # new[2]]

\* result.get(&handle.0).unwrap() on a handle the result does not hold
unwrap_panics(resp, es) ==
  /\ resp.ok
  /\ resp.value.type = "SimulationResult"
  /\ \E e \in Entities : /\ es[e].body # NoHandle
                         /\ es[e].body \notin DOMAIN resp.value.result

handle_simulate_step_response(resp, es) ==
  IF resp.ok /\ resp.value.type = "SimulationResult" /\ ~unwrap_panics(resp, es)
  THEN [e \in Entities |->
          IF es[e].body # NoHandle
          THEN write_back(es[e], resp.value.result[es[e].body])
          ELSE es[e]]
  ELSE es

\* writeback (stream and in-process variants): the step is requested with the
\* current gravity, and the result written back.
Writeback ==
  /\ pc = "writeback"
  /\ ~blocked
  /\ SendRequest(ReqSimulateStep(config))
  /\ UNCHANGED <<procVars, codecVars, plugin_configuration, variant, conns, frameStart, respChan, srvVars, peerSent, frame, ents, cmds, queue,
                 config, configChanged, dispatched>>

WritebackResponse ==
  /\ pc = "writeback"
  /\ blocked
  /\ respChan # <<>>
  /\ \E resp \in Outcomes :
       /\ ents' = handle_simulate_step_response(resp, ents)
       /\ pc' = IF unwrap_panics(resp, ents) THEN "panicked" ELSE after(variant, pc)
       /\ Returned(resp)
  /\ UNCHANGED <<procVars, codecVars, plugin_configuration, variant, conns, frameStart, reqChan, wire, submitted, srvVars, peerSent, frame, cmds, queue,
                 config, configChanged, issued, dispatched>>


\* process_requests hands each element of the bulk response to the handler
\* of its kind, in the order received.
RECURSIVE dispatch(_, _, _, _)
dispatch(responses, commands, es, handlers) ==
  IF responses = <<>>
  THEN [cmds |-> commands, ents |-> es, handlers |-> handlers, panicked |-> FALSE]
  ELSE LET resp == Head(responses)
       IN  CASE resp.type = "ConfigUpdated" ->
                  dispatch(Tail(responses), commands, es,
                           Append(handlers, "handle_update_config_response"))
             [] resp.type = "RigidBodyHandles" ->
                  dispatch(Tail(responses),
                           handle_init_rigid_bodies_response(Ok(resp), commands), es,
                           Append(handlers, "handle_init_rigid_bodies_response"))
             [] resp.type = "ColliderHandles" ->
                  dispatch(Tail(responses),
                           handle_init_colliders_response(Ok(resp), commands), es,
                           Append(handlers, "handle_init_colliders_response"))
             [] resp.type = "SimulationResult" ->
                  IF unwrap_panics(Ok(resp), es)
                  THEN [cmds |-> commands, ents |-> es,
                        handlers |-> Append(handlers, "handle_simulate_step_response"),
                        panicked |-> TRUE]
                  ELSE dispatch(Tail(responses), commands,
                                handle_simulate_step_response(Ok(resp), es),
                                Append(handlers, "handle_simulate_step_response"))
             [] OTHER -> dispatch(Tail(responses), commands, es, handlers)

\* request_queue.0.drain(..).collect()
drain_keeps_queue(q) == q
drain(q) == <<>>

\* process_requests (batching variant): the whole queue is drained into one
\* BulkRequest and sent.
ProcessRequests ==
  /\ pc = "process_requests"
  /\ ~blocked
  /\ queue' = drain(queue)
  /\ SendRequest(ReqBulkRequest(queue))
  /\ UNCHANGED <<procVars, codecVars, plugin_configuration, variant, conns, frameStart, respChan, srvVars, peerSent, frame, ents, cmds, config,
                 configChanged, dispatched>>

\* process_requests after the send has returned: an error is logged and
\* nothing else happens; a BulkResponse is dispatched element by element;
\* any other response is logged as unexpected.
ProcessRequestsResponse ==
  /\ pc = "process_requests"
  /\ blocked
  /\ respChan # <<>>
  /\ \E resp \in Outcomes :
       /\ IF resp.ok /\ resp.value.type = "BulkResponse"
          THEN LET out == dispatch(resp.value.responses, cmds, ents, <<>>)
               IN  /\ cmds' = out.cmds
                   /\ ents' = out.ents
                   /\ dispatched' = out.handlers
                   /\ pc' = IF out.panicked THEN "panicked" ELSE after(variant, pc)
          ELSE /\ pc' = after(variant, pc)
               /\ UNCHANGED <<cmds, ents, dispatched>>
       /\ Returned(resp)
  /\ UNCHANGED <<procVars, codecVars, plugin_configuration, variant, conns, frameStart, reqChan, wire, submitted, srvVars, peerSent, frame, queue, config,
                 configChanged, issued>>

\* ------------------------------------------------------------ whole system
\* One frame loop connected to one backend through one of the transports.
Init ==
  /\ variant \in {"inproc", "stream", "bulk"}
  /\ peerSent = 0
  /\ submitted = [e \in Entities |-> [bodies |-> 0, colliders |-> 0]]
  /\ conns = <<>>
  /\ AlreadyListening
  /\ NothingEncoded
  /\ DefaultConfiguration
  /\ InitBackend
  /\ InitFrameSide

Next ==
  \/ Spawn
  \/ SetGravity
  \/ BeginFrame
  \/ UpdateConfig
  \/ InitRigidBodies
  \/ InitRigidBodiesResponse
  \/ InitColliders
  \/ InitCollidersResponse
  \/ SimulateStep
  \/ ApplyBuffers
  \/ Writeback
  \/ WritebackResponse
  \/ ProcessRequests
  \/ ProcessRequestsResponse
  \/ ServerRead
  \/ ServerReply

Spec == Init /\ [][Next]_vars

\* The same frame loop when the application has inserted its own
\* RapierPhysicsPluginConfiguration before adding the plugin: build keeps a
\* resource that is already there. No system reads the resource.
InitConfigured ==
  /\ variant \in {"inproc", "stream", "bulk"}
  /\ peerSent = 0
  /\ submitted = [e \in Entities |-> [bodies |-> 0, colliders |-> 0]]
  /\ conns = <<>>
  /\ AlreadyListening
  /\ NothingEncoded
  /\ plugin_configuration \in Configurations
  /\ InitBackend
  /\ InitFrameSide

SpecConfigured == InitConfigured /\ [][Next]_vars

\* The in-process variant alone, both threads scheduled fairly: a thread
\* that can take its next step eventually takes it.
InitInproc == Init /\ variant = "inproc"

SimulationThread == ServerRead \/ ServerReply

FrameThread ==
  \/ BeginFrame
  \/ InitRigidBodies
  \/ InitRigidBodiesResponse
  \/ InitColliders
  \/ InitCollidersResponse
  \/ ApplyBuffers
  \/ Writeback
  \/ WritebackResponse

NextInproc == Spawn \/ SetGravity \/ FrameThread \/ SimulationThread

SpecInproc ==
  /\ InitInproc
  /\ [][NextInproc]_vars
  /\ WF_vars(SimulationThread)
  /\ WF_vars(FrameThread)

\* ---------------------------------------------------- the backend process
\* main: arguments, listener; handle_connection: the WebSocket handshake and
\* the latency injected before each reply.
MaxMillis == 3
Bits == 3
Modulus == 2 ^ Bits
Millis == 0..MaxMillis

Fixed(latency) == [kind |-> "Fixed", latency |-> latency]
Random(min, mean) == [kind |-> "Random", min |-> min, mean |-> mean]

\* cmd.error(..) builds a clap Error and returns it; nothing is done with
\* the value, so control falls through to the Random arm's result.
error(kind, text) == [kind |-> kind, message |-> text]
discard(value, result) == result

\* main, lines 55-71: the SimulatedLatency selected by the two arguments.
select_latency(a) ==
  IF a.latency # None /\ a.min = None THEN Fixed(a.latency[1])
  ELSE IF a.latency # None /\ a.min # None
       THEN IF a.min[1] >= a.latency[1]
            THEN discard(error("ValueValidation", "min must be less than latency"),
                         Random(a.min[1], a.latency[1]))
            ELSE Random(a.min[1], a.latency[1])
  ELSE NoLatency

\* get_matches_mut: clap itself exits when --min is given without --latency
\* (requires("latency")); otherwise the match on the two arguments runs.
ParseArguments ==
  /\ variant = "process"
  /\ listener = "start"
  /\ IF args.latency = None /\ args.min # None
     THEN listener' = "exited" /\ UNCHANGED simulated_latency
     ELSE /\ listener' = "parsed"
          /\ simulated_latency' = select_latency(args)
  /\ UNCHANGED <<profile, args, handshake, delay, codecVars, plugin_configuration, variant, conns, chanVars, wire,
                 submitted, srvVars, peerSent, frameVars>>

\* TcpListener::bind(..)?: the listener is bound, or main returns the error.
Bind ==
  /\ variant = "process"
  /\ listener = "parsed"
  /\ listener' \in {"listening", "exited"}
  /\ UNCHANGED <<profile, args, simulated_latency, handshake, delay, codecVars, plugin_configuration, variant, conns,
                 chanVars, wire, submitted, srvVars, peerSent, frameVars>>

\* The opening request of a connection: a WebSocket upgrade request or a
\* plain GET, on the path the backend singles out, on the path the frame
\* side connects to (client plugin: ws://addr:port/socket), or on "/".
Paths == {"/ws", "/socket", "/"}
HttpRequests == [path : Paths, upgrade : BOOLEAN]

SWITCHING_PROTOCOLS == 101
FORBIDDEN == 403
NOT_FOUND == 404

\* accept_hdr with the callback of lines 105-125. tungstenite parses the
\* request and prepares the 101 response; a request that is no upgrade
\* request fails there, before the callback. The callback records whether
\* the path is /ws, sets the status to NOT_FOUND when it is, and returns
\* Ok(response): tungstenite writes that response and, unless the write
\* fails, hands back the open WebSocket.
accept_hdr(req, written) ==
  IF ~req.upgrade
  THEN [ok |-> FALSE, is_socket_path |-> FALSE, status |-> None]
  ELSE LET is_socket_path == req.path = "/ws"
           status == IF is_socket_path THEN NOT_FOUND ELSE SWITCHING_PROTOCOLS
       IN  [ok |-> written, is_socket_path |-> is_socket_path,
            status |-> IF written THEN Some(status) ELSE None]

\* handle_connection, lines 101-155: the handshake and what follows it. On
\* an open WebSocket the context is created and the loop is entered; on a
\* failed handshake an error response is written and the function returns.
\* (HandshakeError::Interrupted needs a non-blocking stream; the accepted
\* stream is blocking.)
handshake_of(req, written) ==
  LET websocket == accept_hdr(req, written)
  IN  IF websocket.ok
      THEN [request |-> req, status |-> websocket.status, body |-> None,
            websocket |-> TRUE, context |-> Some(DefaultContext)]
      ELSE IF websocket.is_socket_path
      THEN [request |-> req, status |-> Some(FORBIDDEN),
            body |-> Some("{\"error\": \"Access via websocket protocol\"}"),
            websocket |-> FALSE, context |-> None]
      ELSE [request |-> req, status |-> Some(NOT_FOUND),
            body |-> Some("{\"error\": \"Not found\"}"),
            websocket |-> FALSE, context |-> None]

\* server.incoming(): a connection arrives and its thread runs the handshake.
Handshake ==
  /\ variant = "process"
  /\ listener = "listening"
  /\ \E req \in HttpRequests, written \in BOOLEAN :
       handshake' = Some(handshake_of(req, written))
  /\ UNCHANGED <<profile, args, listener, simulated_latency, delay, codecVars, plugin_configuration, variant, conns,
                 chanVars, wire, submitted, srvVars, peerSent, frameVars>>

\* Floating point values of simulate_latency, in units of 1 / Scale.
Scale == 2
Finite(v) == [class |-> "finite", v |-> v]
PosInf == [class |-> "inf"]
NaN == [class |-> "nan"]

\* -rng.gen::<f64>().ln() for a draw u in [0, 1): a value in (0, +inf], the
\* infinity at u = 0. In units of 1 / Scale; 0 stands for the values too
\* small to change the truncated sum.
MaxDraw == 4
Infinity == MaxDraw + 1
Draws == 0..Infinity

\* mean - min on u64: below zero it panics in a debug build and wraps in a
\* release build.
sub(a, b, prof) ==
  IF a >= b THEN Some(a - b)
  ELSE IF prof = "debug" THEN None
  ELSE Some((a - b + Modulus) % Modulus)

\* -ln(u) * (mean - min) as f64: inf * 0 is NaN.
expovariate(draw, d) ==
  IF draw = Infinity THEN (IF d = 0 THEN NaN ELSE PosInf)
  ELSE Finite(draw * d)

\* min as f64 + expovariate
plus(min, x) == IF x.class = "finite" THEN Finite(min * Scale + x.v) ELSE x

\* f64 as u64: truncates, saturates, and maps NaN to 0.
as_u64(x) ==
  IF x.class = "nan" THEN 0
  ELSE IF x.class = "inf" THEN Modulus - 1
  ELSE IF x.v \div Scale > Modulus - 1 THEN Modulus - 1
  ELSE x.v \div Scale

Slept(ms) == [panicked |-> FALSE, slept |-> Some(ms)]
NoSleep == [panicked |-> FALSE, slept |-> None]
Panicked == [panicked |-> TRUE, slept |-> None]

simulate_latency(sl, draw, prof) ==
  IF sl.kind = "None" THEN NoSleep
  ELSE IF sl.kind = "Fixed" THEN Slept(sl.latency)
  ELSE LET d == sub(sl.mean, sl.min, prof)
       IN  IF d = None THEN Panicked
           ELSE Slept(as_u64(plus(sl.min, expovariate(draw, d[1]))))

\* One pass of the connection's loop, as far as the latency goes: a
\* request was processed and simulate_latency runs before the reply.
Serve ==
  /\ variant = "process"
  /\ handshake # None
  /\ handshake[1].websocket
  /\ \E draw \in Draws :
       delay' = Some(simulate_latency(simulated_latency, draw, profile))
  /\ UNCHANGED <<profile, args, listener, simulated_latency, handshake, codecVars, plugin_configuration, variant, conns,
                 chanVars, wire, submitted, srvVars, peerSent, frameVars>>

ArgValues == {None} \cup {Some(ms) : ms \in Millis}

InitProcess ==
  /\ variant = "process"
  /\ peerSent = 0
  /\ submitted = [e \in Entities |-> [bodies |-> 0, colliders |-> 0]]
  /\ conns = <<>>
  /\ profile \in {"debug", "release"}
  /\ args \in [latency : ArgValues, min : ArgValues]
  /\ listener = "start"
  /\ simulated_latency = NoLatency
  /\ handshake = None
  /\ delay = None
  /\ NothingEncoded
  /\ DefaultConfiguration
  /\ InitBackend
  /\ InitFrameSide

NextProcess == ParseArguments \/ Bind \/ Handshake \/ Serve

SpecProcess == InitProcess /\ [][NextProcess]_vars

\* ------------------------------------------------------ the wire encoding
\* bincode over the derived Serialize / Deserialize of the two protocol
\* crates: an enum is its variant index followed by the fields, a Vec or a
\* HashMap its length followed by the elements (a map's entries in its
\* iteration order, as key then value), an Option a tag 0, or 1 and the
\* value, a tuple or struct its fields in order. Numbers stand for
\* themselves. The crates differ in the variants and so in the indices.
Crates == {"physics_shared", "shared"}

RequestVariants(crate) ==
  IF crate = "physics_shared"
  THEN <<"CreateBodies", "CreateColliders", "SimulateStep">>
  ELSE <<"UpdateConfig", "CreateBodies", "CreateColliders", "SimulateStep",
         "BulkRequest">>

ResponseVariants(crate) ==
  IF crate = "physics_shared"
  THEN <<"RigidBodyHandles", "ColliderHandles", "SimulationResult">>
  ELSE <<"ConfigUpdated", "RigidBodyHandles", "ColliderHandles",
         "SimulationResult", "BulkResponse">>

\* The u32 index of a variant: its place in the enum, counted from 0.
variant_index(variants, type) ==
  (CHOOSE i \in 1..Len(variants) : variants[i] = type) - 1

serialize_option_untagged(o) == IF o = None THEN <<>> ELSE <<o[1]>>
serialize_option(o) == IF o = None THEN <<0>> ELSE <<1, o[1]>>

\* CreatedBody / CreatedCollider
serialize_descriptor(d) == <<d.id>> \o serialize_option(d.transform)

RECURSIVE serialize_descriptors(_)
serialize_descriptors(list) ==
  IF list = <<>> THEN <<>>
  ELSE serialize_descriptor(Head(list)) \o serialize_descriptors(Tail(list))

\* Vec<(u64, handle)>
RECURSIVE serialize_pairs(_)
serialize_pairs(list) ==
  IF list = <<>> THEN <<>>
  ELSE <<Head(list)[1], Head(list)[2]>> \o serialize_pairs(Tail(list))

\* HashMap<RigidBodyHandle, (Transform, Velocity)>, its entries in the order
\* the map iterates in.
RECURSIVE serialize_entries(_, _)
serialize_entries(result, order) ==
  IF order = <<>> THEN <<>>
  ELSE <<Head(order), result[Head(order)][1], result[Head(order)][2]>>
         \o serialize_entries(result, Tail(order))

iteration_order(result, reversed) ==
  IF reversed THEN Reverse(Ascending(DOMAIN result)) ELSE Ascending(DOMAIN result)

RECURSIVE serialize_request(_, _)
RECURSIVE serialize_requests(_, _)
serialize_requests(crate, list) ==
  IF list = <<>> THEN <<>>
  ELSE serialize_request(crate, Head(list)) \o serialize_requests(crate, Tail(list))

serialize_request(crate, req) ==
  <<variant_index(RequestVariants(crate), req.type)>>
    \o CASE req.type = "CreateBodies" ->
              <<Len(req.bodies)>> \o serialize_descriptors(req.bodies)
         [] req.type = "CreateColliders" ->
              <<Len(req.colliders)>> \o serialize_descriptors(req.colliders)
         [] req.type = "SimulateStep" ->
              IF crate = "physics_shared" THEN <<req.gravity>> ELSE <<req.delta>>
         [] req.type = "UpdateConfig" -> <<req.config>>
         [] req.type = "BulkRequest" ->
              <<Len(req.requests)>> \o serialize_requests(crate, req.requests)

RECURSIVE serialize_response(_, _, _)
RECURSIVE serialize_responses(_, _, _)
serialize_responses(crate, list, reversed) ==
  IF list = <<>> THEN <<>>
  ELSE serialize_response(crate, Head(list), reversed)
         \o serialize_responses(crate, Tail(list), reversed)

serialize_response(crate, resp, reversed) ==
  <<variant_index(ResponseVariants(crate), resp.type)>>
    \o CASE resp.type = "ConfigUpdated" -> <<>>
         [] resp.type \in {"RigidBodyHandles", "ColliderHandles"} ->
              <<Len(resp.handles)>> \o serialize_pairs(resp.handles)
         [] resp.type = "SimulationResult" ->
              <<Cardinality(DOMAIN resp.result)>>
                \o serialize_entries(resp.result,
                                     iteration_order(resp.result, reversed))
         [] resp.type = "BulkResponse" ->
              <<Len(resp.responses)>>
                \o serialize_responses(crate, resp.responses, reversed)

\* Deserializing reads the bytes front to back; each reader gives the value
\* it read and the bytes that follow, or fails on bytes that end early or
\* carry an index or tag that does not exist.
Read(value, rest) == [ok |-> TRUE, value |-> value, rest |-> rest]
Failed == [ok |-> FALSE, value |-> None, rest |-> <<>>]

deserialize_option(b) ==
  IF b = <<>> THEN Failed
  ELSE IF Head(b) = 0 THEN Read(None, Tail(b))
  ELSE IF Head(b) = 1 /\ Len(b) >= 2 THEN Read(Some(b[2]), Tail(Tail(b)))
  ELSE Failed

deserialize_descriptor(b) ==
  IF b = <<>> THEN Failed
  ELSE LET transform == deserialize_option(Tail(b))
       IN  IF transform.ok
           THEN Read([id |-> Head(b), transform |-> transform.value], transform.rest)
           ELSE Failed

RECURSIVE deserialize_descriptors(_, _, _)
deserialize_descriptors(n, b, list) ==
  IF n = 0 THEN Read(list, b)
  ELSE LET d == deserialize_descriptor(b)
       IN  IF d.ok THEN deserialize_descriptors(n - 1, d.rest, Append(list, d.value))
           ELSE Failed

RECURSIVE deserialize_pairs(_, _, _)
deserialize_pairs(n, b, list) ==
  IF n = 0 THEN Read(list, b)
  ELSE IF Len(b) < 2 THEN Failed
  ELSE deserialize_pairs(n - 1, Tail(Tail(b)), Append(list, <<b[1], b[2]>>))

\* map.insert(key, value)
insert(map, key, value) ==
  [k \in DOMAIN map \cup {key} |-> IF k = key THEN value ELSE map[k]]

RECURSIVE deserialize_entries(_, _, _)
deserialize_entries(n, b, map) ==
  IF n = 0 THEN Read(map, b)
  ELSE IF Len(b) < 3 THEN Failed
  ELSE deserialize_entries(n - 1, SubSeq(b, 4, Len(b)),
                           insert(map, b[1], <<b[2], b[3]>>))

RECURSIVE deserialize_request(_, _)
RECURSIVE deserialize_requests(_, _, _, _)
deserialize_requests(crate, n, b, list) ==
  IF n = 0 THEN Read(list, b)
  ELSE LET r == deserialize_request(crate, b)
       IN  IF r.ok
           THEN deserialize_requests(crate, n - 1, r.rest, Append(list, r.value))
           ELSE Failed

deserialize_request(crate, b) ==
  IF Len(b) < 2 \/ Head(b) + 1 \notin DOMAIN RequestVariants(crate) THEN Failed
  ELSE LET type == RequestVariants(crate)[Head(b) + 1]
           n == b[2]
           body == Tail(Tail(b))
       IN  CASE type = "CreateBodies" ->
                  LET l == deserialize_descriptors(n, body, <<>>)
                  IN  IF l.ok THEN Read(ReqCreateBodies(l.value), l.rest) ELSE Failed
             [] type = "CreateColliders" ->
                  LET l == deserialize_descriptors(n, body, <<>>)
                  IN  IF l.ok THEN Read(ReqCreateColliders(l.value), l.rest) ELSE Failed
             [] type = "SimulateStep" ->
                  IF crate = "physics_shared"
                  THEN Read(ReqSimulateStep(n), body)
                  ELSE Read([type |-> "SimulateStep", delta |-> n], body)
             [] type = "UpdateConfig" -> Read(ReqUpdateConfig(n), body)
             [] type = "BulkRequest" ->
                  LET l == deserialize_requests(crate, n, body, <<>>)
                  IN  IF l.ok THEN Read(ReqBulkRequest(l.value), l.rest) ELSE Failed

RECURSIVE deserialize_response(_, _)
RECURSIVE deserialize_responses(_, _, _, _)
deserialize_responses(crate, n, b, list) ==
  IF n = 0 THEN Read(list, b)
  ELSE LET r == deserialize_response(crate, b)
       IN  IF r.ok
           THEN deserialize_responses(crate, n - 1, r.rest, Append(list, r.value))
           ELSE Failed

deserialize_response(crate, b) ==
  IF b = <<>> \/ Head(b) + 1 \notin DOMAIN ResponseVariants(crate) THEN Failed
  ELSE LET type == ResponseVariants(crate)[Head(b) + 1]
       IN  IF type = "ConfigUpdated" THEN Read(RespConfigUpdated, Tail(b))
           ELSE IF Len(b) < 2 THEN Failed
           ELSE LET n == b[2]
                    body == Tail(Tail(b))
                IN  CASE type = "RigidBodyHandles" ->
                           LET l == deserialize_pairs(n, body, <<>>)
                           IN  IF l.ok THEN Read(RespRigidBodyHandles(l.value), l.rest)
                               ELSE Failed
                      [] type = "ColliderHandles" ->
                           LET l == deserialize_pairs(n, body, <<>>)
                           IN  IF l.ok THEN Read(RespColliderHandles(l.value), l.rest)
                               ELSE Failed
                      [] type = "SimulationResult" ->
                           LET m == deserialize_entries(n, body, <<>>)
                           IN  IF m.ok THEN Read(RespSimulationResult(m.value), m.rest)
                               ELSE Failed
                      [] type = "BulkResponse" ->
                           LET l == deserialize_responses(crate, n, body, <<>>)
                           IN  IF l.ok THEN Read(RespBulkResponse(l.value), l.rest)
                               ELSE Failed

\* deserialize::<T>(bytes): the value read, provided nothing follows it.
deserialize(crate, kind, b) ==
  LET r == IF kind = "Request" THEN deserialize_request(crate, b)
           ELSE deserialize_response(crate, b)
  IN  IF r.ok /\ r.rest = <<>> THEN Ok(r.value) ELSE Err

\* The requests of each crate: empty, one-element and longer descriptor
\* lists, with and without poses; for the batching crate the config, the
\* step and bulk requests from the empty one to one of each kind.
RequestsOf(crate) ==
  {ReqCreateBodies(l) : l \in DescriptorLists}
    \cup {ReqCreateColliders(l) : l \in DescriptorLists}
    \cup (IF crate = "physics_shared"
          THEN {ReqSimulateStep(g) : g \in Gravities}
          ELSE {ReqUpdateConfig(g) : g \in Gravities}
                 \cup {ReqSimulateStepDelta}
                 \cup {ReqBulkRequest(l) : l \in BulkLists})

\* The responses of each crate: those a backend gives to these requests when
\* fresh and when it already holds the bodies of every entity.
Populated ==
  create_bodies(Posed([i \in 1..NumEntities |-> i], TRUE), DefaultContext).context

ResponsesOf(crate) ==
  {response_of(req, ctx).response :
     req \in RequestsOf(crate), ctx \in {DefaultContext, Populated}}

\* send_request / handle_connection: a message is serialized.
Serialize ==
  /\ variant = "codec"
  /\ \E crate \in Crates :
       \/ \E req \in RequestsOf(crate) :
            /\ message' = Some([crate |-> crate, kind |-> "Request", value |-> req])
            /\ bytes' = Some(serialize_request(crate, req))
       \/ \E resp \in ResponsesOf(crate), reversed \in BOOLEAN :
            /\ message' = Some([crate |-> crate, kind |-> "Response", value |-> resp])
            /\ bytes' = Some(serialize_response(crate, resp, reversed))
  /\ decoded' = None
  /\ payload' = None
  /\ UNCHANGED <<procVars, plugin_configuration, variant, conns, chanVars, wire,
                 submitted, srvVars, peerSent, frameVars>>

\* The receiving side deserializes the bytes as the type it expects.
Deserialize ==
  /\ variant = "codec"
  /\ bytes # None
  /\ decoded = None
  /\ payload = None
  /\ decoded' = Some(deserialize(message[1].crate, message[1].kind, bytes[1]))
  /\ UNCHANGED <<procVars, message, bytes, payload, plugin_configuration, variant,
                 conns, chanVars, wire, submitted, srvVars, peerSent, frameVars>>

\* ZlibEncoder / ZlibDecoder: the zlib stream of a byte sequence is a header
\* byte, the deflated data and the Adler-32 checksum of the original bytes.
\* Deflate is modelled by its run-length coding: each run of equal bytes
\* becomes its length and its byte.
RECURSIVE run_length(_, _)
run_length(b, x) ==
  IF b = <<>> \/ Head(b) # x THEN 0 ELSE 1 + run_length(Tail(b), x)

RECURSIVE deflate(_)
deflate(b) ==
  IF b = <<>> THEN <<>>
  ELSE LET n == run_length(b, Head(b))
       IN  <<n, Head(b)>> \o deflate(SubSeq(b, n + 1, Len(b)))

RECURSIVE sum(_)
sum(b) == IF b = <<>> THEN 0 ELSE Head(b) + sum(Tail(b))

adler32(b) == (1 + sum(b)) % 65521

repeat_once(n, x) == <<x>>
repeat(n, x) == [i \in 1..n |-> x]

RECURSIVE inflate(_)
inflate(d) ==
  IF d = <<>> THEN Ok(<<>>)
  ELSE IF Len(d) < 2 \/ d[1] < 1 THEN Err
  ELSE LET rest == inflate(Tail(Tail(d)))
       IN  IF rest.ok THEN Ok(repeat(d[1], d[2]) \o rest.value) ELSE Err

\* encoder.write_all(bytes); encoder.finish()
compress(b) == <<120>> \o deflate(b) \o <<adler32(b)>>

\* decoder.read_to_end(&mut decompressed)
decompress(p) ==
  IF Len(p) < 2 \/ p[1] # 120 THEN Err
  ELSE LET data == inflate(SubSeq(p, 2, Len(p) - 1))
       IN  IF data.ok /\ adler32(data.value) = p[Len(p)] THEN data ELSE Err

\* send_request, the batching client: the serialized request is compressed
\* and written; the backend compresses its serialized response likewise.
Compress ==
  /\ variant = "codec"
  /\ bytes # None
  /\ message[1].crate = "shared"
  /\ payload = None
  /\ decoded = None
  /\ payload' = Some(compress(bytes[1]))
  /\ UNCHANGED <<procVars, message, bytes, decoded, plugin_configuration, variant,
                 conns, chanVars, wire, submitted, srvVars, peerSent, frameVars>>

\* send_request, the batching client: the payload read is decompressed and
\* the result deserialized; the backend reads a request likewise.
Decompress ==
  /\ variant = "codec"
  /\ payload # None
  /\ decoded = None
  /\ decoded' = Some(LET decompressed == decompress(payload[1])
                     IN  IF decompressed.ok
                         THEN deserialize(message[1].crate, message[1].kind,
                                          decompressed.value)
                         ELSE Err)
  /\ UNCHANGED <<procVars, message, bytes, payload, plugin_configuration, variant,
                 conns, chanVars, wire, submitted, srvVars, peerSent, frameVars>>

InitCodec ==
  /\ variant = "codec"
  /\ peerSent = 0
  /\ submitted = [e \in Entities |-> [bodies |-> 0, colliders |-> 0]]
  /\ conns = <<>>
  /\ AlreadyListening
  /\ NothingEncoded
  /\ plugin_configuration \in Configurations
  /\ InitBackend
  /\ InitFrameSide

NextCodec == Serialize \/ Deserialize \/ Compress \/ Decompress

SpecCodec == InitCodec /\ [][NextCodec]_vars

\* ------------------------------------------- a backend that answers wrongly
\* The frame side decodes whatever Response arrives, whether or not it is
\* the variant its request calls for. A response of another variant than
\* resp: an acknowledgement, an empty bulk, or a body handle for the first
\* entity of the scene.
WrongVariants(resp) ==
  {w \in {RespConfigUpdated, RespBulkResponse(<<>>)} \cup
          {RespRigidBodyHandles(<<<<e, 1>>>>) :
             e \in {d \in Entities : ents[d].alive /\ d = 1}} :
     w.type # resp.type}

\* What such a backend may answer where `proper` is due: proper itself, a
\* response of another variant, or (for a bulk) proper with one element
\* replaced by a response of another variant.
Replies(proper) ==
  {proper} \cup WrongVariants(proper) \cup
    (IF proper.type = "BulkResponse"
     THEN {RespBulkResponse([proper.responses EXCEPT ![i] = w]) :
             <<i, w>> \in {p \in (DOMAIN proper.responses) \X
                                  UNION {WrongVariants(proper.responses[k]) :
                                           k \in DOMAIN proper.responses} :
                             p[2].type # proper.responses[p[1]].type}}
     ELSE {})

AnyReply ==
  /\ srvPc = "busy"
  /\ LET out == response_of(srvCur[1], context)
     IN  /\ context' = out.context
         /\ \E response \in Replies(out.response) :
              /\ respChan' = emit(respChan, response)
              /\ respLog' = Append(respLog, response.type)
              /\ lastResp' = Some(response)
  /\ srvPc' = "idle"
  /\ srvCur' = None
  /\ UNCHANGED <<procVars, codecVars, plugin_configuration, variant, conns, reqChan, wire, reqLog, submitted, peerSent, frameVars>>

InitMismatch == Init /\ variant \in {"stream", "bulk"}

NextMismatch ==
  \/ Spawn
  \/ BeginFrame
  \/ UpdateConfig
  \/ InitRigidBodies
  \/ InitRigidBodiesResponse
  \/ InitColliders
  \/ InitCollidersResponse
  \/ SimulateStep
  \/ ApplyBuffers
  \/ Writeback
  \/ WritebackResponse
  \/ ProcessRequests
  \/ ProcessRequestsResponse
  \/ ServerRead
  \/ AnyReply

SpecMismatch == InitMismatch /\ [][NextMismatch]_vars

\* --------------------------------------------- a backend that falls silent
\* The networked frame side reads its response with a blocking read_message
\* on a socket that was opened without a read timeout. The peer is another
\* process: it may stop reading and replying while its socket stays open.
PeerStalls ==
  /\ variant # "inproc"
  /\ srvPc \in {"idle", "busy"}
  /\ srvPc' = "silent"
  /\ UNCHANGED <<procVars, codecVars, plugin_configuration, variant, conns, reqChan, respChan, wire, srvCur, context, reqLog,
                 respLog, lastResp, submitted, peerSent, frameVars>>

InitNetworked == Init /\ variant \in {"stream", "bulk"}

Backend == ServerRead \/ ServerReply

FrameLoop ==
  \/ BeginFrame
  \/ UpdateConfig
  \/ InitRigidBodies
  \/ InitRigidBodiesResponse
  \/ InitColliders
  \/ InitCollidersResponse
  \/ SimulateStep
  \/ ApplyBuffers
  \/ Writeback
  \/ WritebackResponse
  \/ ProcessRequests
  \/ ProcessRequestsResponse

NextNetworked == Spawn \/ FrameLoop \/ Backend \/ PeerStalls

\* The frame loop runs whenever it can, and so does the backend until it
\* falls silent.
SpecNetworked ==
  /\ InitNetworked
  /\ [][NextNetworked]_vars
  /\ WF_vars(FrameLoop)
  /\ WF_vars(Backend)

\* ================================================================== claims
\* The request most recently answered, and whether the backend has answered
\* a request of the given type last.
LastReq == reqLog[Len(respLog)]
Answered(type) ==
  /\ respLog # <<>>
  /\ Len(respLog) <= Len(reqLog)
  /\ LastReq.type = type
  /\ lastResp # None

\* C2: on one connection the backend takes the messages in the order they
\* were written (the unread ones are the newest, the decoded ones the oldest),
\* has at most one request in processing and none before the previous
\* response is out, and emits for every decoded request exactly one response
\* of the matching variant, in the same order.
C2_OneResponsePerRequestInOrder ==
  LET read == Len(wire) - Len(reqChan)
  IN  /\ reqChan = SubSeq(wire, read + 1, Len(wire))
      /\ Len(reqLog) <= read
      /\ \A i \in 1..Len(reqLog) : wire[i] = Binary(reqLog[i])
      /\ Len(respLog) = Len(reqLog) - (IF srvPc = "busy" THEN 1 ELSE 0)
      /\ \A i \in 1..Len(respLog) : respLog[i] = Matching(reqLog[i].type)
      /\ srvPc = "busy" <=> srvCur # None
      /\ srvPc = "busy" => srvCur = Some(reqLog[Len(reqLog)])

C2_Witness ==
  /\ Len(respLog) >= 2
  /\ reqLog[1].type # reqLog[2].type

\* C4: the RigidBodyHandles response to a CreateBodies request of N
\* descriptors has N pairs, pair i carries the entity id of descriptor i, and
\* its handle is that of the body created for descriptor i (the i-th newest
\* of the request, holding that id).
C4_BodyHandlesPositional ==
  Answered("CreateBodies") =>
    LET bodies == LastReq.bodies
        handles == lastResp[1].handles
        base == Len(context.bodies) - Len(bodies)
    IN  /\ lastResp[1].type = "RigidBodyHandles"
        /\ Len(handles) = Len(bodies)
        /\ \A i \in 1..Len(bodies) :
             /\ handles[i][1] = bodies[i].id
             /\ handles[i][2] = base + i
             /\ context.bodies[handles[i][2]].user_data = bodies[i].id

C4_Witness ==
  /\ Answered("CreateBodies")
  /\ Len(LastReq.bodies) >= 2
  /\ Len(lastResp[1].handles) >= 2

\* C5: the ColliderHandles response to a CreateColliders request of N
\* descriptors has N pairs in input order, each handle belonging to exactly
\* one descriptor of the request (the handles are pairwise different and
\* name the collider created for that descriptor).
C5_ColliderHandlesPositional ==
  Answered("CreateColliders") =>
    LET colliders == LastReq.colliders
        handles == lastResp[1].handles
    IN  /\ lastResp[1].type = "ColliderHandles"
        /\ Len(handles) = Len(colliders)
        /\ \A i \in 1..Len(handles) :
             /\ handles[i][1] = colliders[i].id
             /\ handles[i][2] \in DOMAIN context.colliders
             /\ context.colliders[handles[i][2]].user_data = colliders[i].id
        /\ \A i, j \in 1..Len(handles) : i # j => handles[i][2] # handles[j][2]

C5_Witness ==
  /\ Answered("CreateColliders")
  /\ Len(LastReq.colliders) >= 2
  /\ Len(lastResp[1].handles) >= 2

\* C6: a collider created for an entity id whose body is registered is the
\* child of exactly that body; one created for an id with no registered body
\* is free-standing, at the descriptor's pose or at the identity when the
\* descriptor has none.
C6_ParentingRule ==
  Answered("CreateColliders") =>
    \A i \in 1..Len(LastReq.colliders) :
      LET desc == LastReq.colliders[i]
          col == context.colliders[lastResp[1].handles[i][2]]
          registered == \E h \in DOMAIN context.bodies :
                          context.bodies[h].user_data = desc.id
      IN  IF registered
          THEN /\ col.parent \in DOMAIN context.bodies
               /\ col.parent = context.entity2body[desc.id]
               /\ context.bodies[col.parent].user_data = desc.id
          ELSE /\ col.parent = NoHandle
               /\ col.position = IF desc.transform = None THEN Identity
                                 ELSE desc.transform[1]

C6_Witness ==
  /\ Answered("CreateColliders")
  /\ \E i, j \in 1..Len(LastReq.colliders) :
       /\ context.colliders[lastResp[1].handles[i][2]].parent # NoHandle
       /\ context.colliders[lastResp[1].handles[j][2]].parent = NoHandle
       /\ LastReq.colliders[j].transform # None

\* The number of body descriptors in the requests answered so far.
RECURSIVE DescriptorsSubmitted(_)
DescriptorsSubmitted(n) ==
  IF n = 0 THEN 0
  ELSE DescriptorsSubmitted(n - 1)
         + (IF reqLog[n].type = "CreateBodies" THEN Len(reqLog[n].bodies) ELSE 0)

\* C7: the key set of a SimulationResult is the set of all body handles of
\* the backend instance, one per body descriptor ever submitted on the
\* connection, whether or not the step changed the body.
C7_ResultCoversEveryBody ==
  Answered("SimulateStep") =>
    /\ lastResp[1].type = "SimulationResult"
    /\ DOMAIN lastResp[1].result = 1..DescriptorsSubmitted(Len(respLog))
    /\ DOMAIN lastResp[1].result = DOMAIN context.bodies

C7_Witness ==
  /\ Answered("SimulateStep")
  /\ LastReq.gravity = 0
  /\ Len(context.bodies) >= 2

\* C1: across all frames, those whose round trip fails included, an entity
\* id is named by at most one CreateBodies request and by at most one
\* CreateColliders request the frame side writes to the backend.
C1_SubmittedAtMostOnce ==
  \A e \in Entities : submitted[e].bodies <= 1 /\ submitted[e].colliders <= 1

\* The requests written to the backend whose answer has not come back to
\* the frame thread: unread, in processing, or answered and not yet read.
InFlight == Len(reqChan) + (IF srvPc = "busy" THEN 1 ELSE 0) + Len(respChan)

\* C3: the frame side has at most one request in flight, and has one only
\* while it is blocked in the send of that request: the response to a
\* request is received (or a failure returned) before the next is written.
C3_AtMostOneInFlight ==
  /\ InFlight <= 1
  /\ InFlight = 1 => blocked
  /\ Len(respLog) <= Len(reqLog)
  /\ Len(reqLog) <= Len(wire)

C3_Witness ==
  /\ Len(wire) >= 2
  /\ InFlight = 1
  /\ Len(respLog) = Len(wire) - 1

\* The state of a backend that started from ctx and was sent the first i
\* requests of the list one at a time.
RECURSIVE state_after(_, _, _)
state_after(requests, i, ctx) ==
  IF i = 0 THEN ctx
  ELSE response_of(requests[i], state_after(requests, i - 1, ctx)).context

\* C8: a BulkRequest of k requests (k >= 0) is answered by one BulkResponse
\* of k responses, the i-th being the response request i gets when the
\* requests are sent one at a time to a backend starting from the same
\* state, and the backend is left in the state that sequence leaves it in.
C8_BulkEquivalence ==
  [][(srvPc = "busy" /\ srvPc' = "idle" /\ srvCur[1].type = "BulkRequest") =>
       LET requests == srvCur[1].requests
           out == lastResp'[1]
       IN  /\ out.type = "BulkResponse"
           /\ Len(out.responses) = Len(requests)
           /\ \A i \in 1..Len(requests) :
                out.responses[i]
                  = response_of(requests[i],
                                state_after(requests, i - 1, context)).response
           /\ context' = state_after(requests, Len(requests), context)
           /\ respChan' = Append(respChan, out)]_vars

C8_Witness ==
  /\ variant = "bulkpeer"
  /\ Len(respLog) = 2
  /\ Len(reqLog[2].requests) = 3
  /\ reqLog[2].requests[1].type = "SimulateStep"
  /\ reqLog[2].requests[3].type = "CreateBodies"
  /\ Len(lastResp[1].responses) = 3
  /\ Len(context.bodies) > NumEntities

IsSend(x) == x.how = "send"
IsEnqueue(x) == x.how = "enqueue"
IsPlain(x) == x.req.type # "BulkRequest"
Sends == SelectSeq(issued, IsSend)
Enqueued == SelectSeq(issued, IsEnqueue)

\* The handler each element of a bulk response is handed to.
HandlersOf(responses) ==
  [i \in 1..Len(responses) |->
     CASE responses[i].type = "ConfigUpdated" -> "handle_update_config_response"
       [] responses[i].type = "RigidBodyHandles" -> "handle_init_rigid_bodies_response"
       [] responses[i].type = "ColliderHandles" -> "handle_init_colliders_response"
       [] responses[i].type = "SimulationResult" -> "handle_simulate_step_response"]

\* C9: in the batching variant nothing is sent before process_requests;
\* process_requests performs the one send of the frame, a BulkRequest of
\* the requests enqueued in that frame in enqueue order, and leaves the
\* queue empty; the elements of the BulkResponse it receives go to the
\* handlers of their kinds in the order received.
C9_OneBulkPerFrame ==
  variant = "bulk" =>
    /\ Len(Sends) <= 1
    /\ Len(wire) <= Len(Sends)
    /\ (pc = "process_requests" /\ ~blocked) => Sends = <<>>
    /\ pc = "update" => queue = <<>> /\ issued = <<>>
    /\ ((pc = "process_requests" /\ blocked) \/ pc = "apply_writeback") =>
         /\ Len(Sends) = 1
         /\ Sends[1].req
              = ReqBulkRequest([i \in 1..Len(Enqueued) |-> Enqueued[i].req])
         /\ issued[Len(issued)] = Sends[1]
         /\ queue = <<>>
    /\ pc = "apply_writeback" =>
         IF wire = <<>>
         THEN dispatched = <<>>
         ELSE /\ lastResp[1].type = "BulkResponse"
              /\ dispatched \in {<<>>, HandlersOf(lastResp[1].responses)}
              /\ failures = 0 => dispatched = HandlersOf(lastResp[1].responses)

C9_Witness ==
  /\ variant = "bulk"
  /\ frame = 2
  /\ pc = "apply_writeback"
  /\ Len(Enqueued) >= 3
  /\ Len(dispatched) >= 3

\* The place of a request kind in the order of a frame.
Rank(type) ==
  CASE type = "UpdateConfig" -> 1
    [] type = "CreateBodies" -> 2
    [] type = "CreateColliders" -> 3
    [] type = "SimulateStep" -> 4

Ranked(requests) ==
  \A i, j \in 1..Len(requests) :
    i < j => Rank(requests[i].type) < Rank(requests[j].type)

\* C10: the requests a frame issues or enqueues come in the order
\* UpdateConfig, CreateBodies, CreateColliders, SimulateStep, each at most
\* once; a bulk carries them in that order; an UpdateConfig is issued only
\* for a changed config and carries it.
C10_FixedOrderWithinFrame ==
  LET plain == SelectSeq(issued, IsPlain)
  IN  /\ Ranked([i \in 1..Len(plain) |-> plain[i].req])
      /\ \A i \in 1..Len(issued) :
           /\ issued[i].req.type = "BulkRequest" => Ranked(issued[i].req.requests)
           /\ issued[i].req.type = "UpdateConfig" =>
                /\ ~configChanged
                /\ issued[i].req.config = config

C10_Witness ==
  /\ Len(SelectSeq(issued, IsPlain)) = 4
  /\ frame = 2

\* C11: an entity that appears with both a body and a collider descriptor
\* has its CreateBodies processed by the backend before its CreateColliders:
\* every collider the backend holds for such an entity is attached to a body
\* created for that entity, never free-standing.
C11_ColliderAttachedToItsBody ==
  \A h \in DOMAIN context.colliders :
    LET col == context.colliders[h]
    IN  "RigidBody" \in ents[col.user_data].comps =>
          /\ col.parent # NoHandle
          /\ context.bodies[col.parent].user_data = col.user_data

IsSimulationResult(resp) == resp.type = "SimulationResult"

\* The simulation results a response carries: the response itself, or
\* those among the elements of a bulk response.
ResultsOf(resp) ==
  CASE resp.type = "SimulationResult" -> <<resp.result>>
    [] resp.type = "BulkResponse" ->
         LET found == SelectSeq(resp.responses, IsSimulationResult)
         IN  [i \in 1..Len(found) |-> found[i].result]
    [] OTHER -> <<>>

\* The step in which the frame thread is handed a successfully received
\* response that carries a simulation result.
ResultHandled ==
  /\ pc \in {"writeback", "process_requests"}
  /\ blocked /\ ~blocked'
  /\ failures' = failures
  /\ respChan # <<>>
  /\ ResultsOf(Head(respChan)) # <<>>

Tracked(e) == ents[e].alive /\ ents[e].body # NoHandle

\* C12: once a SimulationResult is handled, every tracked entity with a
\* recorded body handle has the pose and the velocity the result stores
\* under that handle.
C12_WritebackMatchesResult ==
  [][ResultHandled =>
       LET result == ResultsOf(Head(respChan))[1]
       IN  \A e \in Entities :
             Tracked(e) =>
               /\ ents[e].body \in DOMAIN result
               /\ "Transform" \in ents[e].comps =>
                    ents'[e].translation = result[ents[e].body][1]
               /\ "Velocity" \in ents[e].comps =>
                    ents'[e].velocity = result[ents[e].body][2]]_vars

C12_Witness ==
  /\ pc = "apply_writeback"
  /\ frame = 2
  /\ \E e \in Entities :
       /\ Tracked(e)
       /\ ents[e].translation = e + 2
       /\ ents[e].velocity = 1

\* C13: a writeback assigns the velocity of exactly the tracked entities
\* whose stored velocity differs from the result's: the number of velocity
\* writes is the number of such entities, and an entity whose velocity is
\* equal is left unwritten.
C13_VelocityWrittenOnlyIfDifferent ==
  [][ResultHandled =>
       LET result == ResultsOf(Head(respChan))[1]
           differs == {e \in Entities : /\ Tracked(e)
                                        /\ "Velocity" \in ents[e].comps
                                        /\ ents[e].velocity # result[ents[e].body][2]}
           written == {e \in Entities : Tracked(e) /\ ents'[e].velocity_changed}
       IN  /\ written = differs
           /\ Cardinality(written) = Cardinality(differs)
           /\ \A e \in Entities \ differs : ents'[e].velocity = ents[e].velocity]_vars

C13_Witness ==
  /\ pc = "apply_writeback"
  /\ \E e, d \in Entities :
       /\ Tracked(e) /\ Tracked(d)
       /\ ents[e].velocity = ents[d].velocity
       /\ ~ents[e].velocity_changed
       /\ ents[d].velocity_changed

\* What the physics systems may change of an entity.
PhysicsState(ent) == <<ent.translation, ent.velocity, ent.body, ent.collider>>

\* C14: in a frame in which a send has failed the frame loop goes on (no
\* crash) and the physics systems leave the pose, the velocity and the
\* recorded handles of every entity as they were when the frame began.
C14_FailedFrameLeavesEntitiesUnchanged ==
  [][(frameStart # None /\ failures' > frameStart[1].failures) =>
       /\ pc' # "panicked"
       /\ \A e \in Entities :
            PhysicsState(ents'[e]) = PhysicsState(frameStart[1].ents[e])]_vars

\* The elements of a list of responses that are of the variant the request
\* at the same place calls for.
RECURSIVE Called(_, _)
Called(responses, requests) ==
  IF responses = <<>> THEN <<>>
  ELSE (IF requests # <<>> /\ Head(responses).type = Matching(Head(requests).type)
        THEN <<Head(responses)>> ELSE <<>>)
       \o Called(Tail(responses),
                 IF requests = <<>> THEN <<>> ELSE Tail(requests))

\* Of a response received for the last request sent, the part that is of
\* the variants requested.
CalledFor(resp) ==
  LET req == Sends[Len(Sends)].req
  IN  IF req.type = "BulkRequest"
      THEN IF resp.type = "BulkResponse"
           THEN Called(resp.responses, req.requests)
           ELSE <<>>
      ELSE Called(<<resp>>, <<req>>)

\* C15: a received response, or element of a bulk response, whose variant
\* is not the one requested is a no-op (no handle recorded, no pose or
\* velocity changed) and the remaining elements are still processed: the
\* frame side ends up as if only the elements of the requested variants had
\* arrived.
C15_MismatchIsNoOp ==
  [][(blocked /\ ~blocked' /\ failures' = failures /\ respChan # <<>>) =>
       LET out == dispatch(CalledFor(Head(respChan)), cmds, ents, <<>>)
       IN  /\ cmds' = out.cmds
           /\ ents' = out.ents
           /\ pc' # "panicked"]_vars

\* The responses a backend gives, starting fresh, to the requests of a list
\* sent one at a time.
RunAlone(requests) ==
  [i \in 1..Len(requests) |->
     response_of(requests[i], state_after(requests, i - 1, DefaultContext)).response]

\* The number of messages the thread of connection c has taken.
Taken(c) == Len(conns[c].wire) - Len(conns[c].reqChan)

\* C16: a binary message that does not decode gets no response, leaves the
\* physics state as the requests before it left it, and ends the
\* connection (nothing after it is taken); a connection ends this way only
\* through a message of its own.
C16_MalformedClosesConnection ==
  \A c \in Connections :
    /\ \A k \in 1..Taken(c) :
         conns[c].wire[k] = Malformed =>
           /\ conns[c].srvPc = "failed"
           /\ Taken(c) = k
           /\ Len(conns[c].reqLog) = k - 1
           /\ Len(conns[c].respChan) = k - 1
           /\ conns[c].context
                = state_after(conns[c].reqLog, k - 1, DefaultContext)
    /\ conns[c].srvPc = "failed" =>
         /\ Taken(c) >= 1
         /\ conns[c].wire[Taken(c)] = Malformed

C16_Witness ==
  /\ conns["A"].srvPc = "failed"
  /\ conns["A"].wire[1] = Malformed
  /\ conns["A"].reqChan # <<>>
  /\ Len(conns["B"].respChan) = 2
  /\ conns["B"].srvPc = "idle"

\* C17: every connection has its own thread and its own fresh state: the
\* responses on a connection, and the state behind it, are those of a
\* backend that serves the requests of that connection alone, however the
\* requests of the connections interleave.
C17_ConnectionsIsolated ==
  \A c \in Connections :
    LET answered == Len(conns[c].respChan)
    IN  /\ answered <= Len(conns[c].reqLog)
        /\ conns[c].respChan = SubSeq(RunAlone(conns[c].reqLog), 1, answered)
        /\ conns[c].context
             = state_after(conns[c].reqLog, answered, DefaultContext)

C17_Witness ==
  /\ Len(conns["A"].context.bodies) = 2 * NumEntities
  /\ Len(conns["B"].respChan) = 2
  /\ conns["B"].respChan[2].type = "SimulationResult"
  /\ DOMAIN conns["B"].respChan[2].result = 1..NumEntities

\* C18: in the in-process variant each of the two channels holds at most
\* the one message of its capacity, at most one message is outstanding in
\* total (in the request channel, in processing, or in the response
\* channel), and the backend's physics state changes only in a step of the
\* simulation thread.
C18_OneMessageOutstanding ==
  /\ [](/\ Len(reqChan) <= ChannelCapacity
        /\ Len(respChan) <= ChannelCapacity
        /\ InFlight <= 1)
  /\ [][context' # context => (srvPc = "busy" /\ srvPc' = "idle" /\ pc' = pc
                                /\ ents' = ents /\ cmds' = cmds)]_vars

C18_Witness ==
  /\ variant = "inproc"
  /\ frame = 2
  /\ Len(wire) = 3
  /\ Len(respChan) = 1
  /\ Len(context.bodies) > 0

\* C19: in the in-process variant, both threads being scheduled fairly, the
\* n-th request a frame sends is eventually answered by the n-th response
\* and the frame thread resumes with it: the threads never block each other
\* for good on the two channels.
C19_EveryRequestAnswered ==
  \A n \in 1..3 :
    (blocked /\ Len(wire) = n) ~> (~blocked /\ Len(wire) = n /\ Len(respLog) = n)

C19_Witness ==
  /\ variant = "inproc"
  /\ ~blocked
  /\ pc = "apply_writeback"
  /\ Len(wire) = 3
  /\ Len(respLog) = 3

\* C20: in the networked variants every send that was issued eventually
\* returns to the frame side, with the response or with an error, also when
\* the peer stops replying without closing the connection.
C20_EverySendReturns == blocked ~> ~blocked

\* C21: started with --min and --latency such that min >= latency, the
\* backend aborts before binding its listener; so a backend that listens
\* with a randomized latency has min < mean.
C21_InvalidLatencyAborts ==
  /\ (args.latency # None /\ args.min # None /\ args.min[1] >= args.latency[1])
        => listener \in {"start", "exited"}
  /\ (listener = "listening" /\ simulated_latency.kind = "Random")
        => simulated_latency.min < simulated_latency.mean

\* C22: a message stream is opened for an upgrade request on /ws and for no
\* other path; an upgrade request on another path gets a non-success status
\* with a JSON error body and no stream.
Success(status) == status = Some(SWITCHING_PROTOCOLS)

C22_StreamOnlyOnRecognizedPath ==
  handshake # None =>
    LET h == handshake[1]
    IN  /\ h.websocket => (h.request.upgrade /\ h.request.path = "/ws")
        /\ (h.request.upgrade /\ h.request.path = "/ws" /\ h.status # None)
              => (h.websocket /\ Success(h.status))
        /\ (h.request.upgrade /\ h.request.path # "/ws")
              => (~h.websocket /\ ~Success(h.status) /\ h.body # None)

\* C23: a plain GET / is answered with status 400 and a JSON error body, and
\* the connection ends with no backend state created.
C23_PlainGetIsBadRequest ==
  (handshake # None /\ ~handshake[1].request.upgrade /\ handshake[1].request.path = "/")
    => /\ handshake[1].status = Some(400)
       /\ handshake[1].body # None
       /\ ~handshake[1].websocket
       /\ handshake[1].context = None

\* C24: an injected delay is at least min with a randomized latency, exactly
\* the latency with a fixed one, absent with none, and simulate_latency
\* never underflows or panics.
C24_LatencyBoundedBelow ==
  delay # None =>
    /\ ~delay[1].panicked
    /\ simulated_latency.kind = "None" => delay[1].slept = None
    /\ simulated_latency.kind = "Fixed"
          => delay[1].slept = Some(simulated_latency.latency)
    /\ simulated_latency.kind = "Random"
          => /\ simulated_latency.mean >= simulated_latency.min
             /\ delay[1].slept # None
             /\ delay[1].slept[1] >= simulated_latency.min

IsUpdateConfig(req) == req.type = "UpdateConfig"

\* The UpdateConfig requests enqueued so far in the frame.
ConfigsEnqueued ==
  SelectSeq([i \in 1..Len(Enqueued) |-> Enqueued[i].req], IsUpdateConfig)

\* The UpdateConfig requests written to the backend so far in the frame.
ConfigsSent ==
  IF wire = <<>> THEN <<>> ELSE SelectSeq(wire[1].req.requests, IsUpdateConfig)

\* C25: once update_config has run in a frame, an UpdateConfig (carrying the
\* current config) has been enqueued if and only if the config changed since
\* the previous frame; when it did not change, none is enqueued or sent.
C25_ConfigPushedOnlyWhenChanged ==
  (variant = "bulk" /\ frameStart # None /\ pc # "update_config") =>
    IF frameStart[1].configChanged
    THEN /\ ConfigsEnqueued = <<ReqUpdateConfig(config)>>
         /\ wire # <<>> => ConfigsSent = <<ReqUpdateConfig(config)>>
    ELSE /\ ConfigsEnqueued = <<>>
         /\ ConfigsSent = <<>>

C25_Witness ==
  /\ variant = "bulk"
  /\ frame = 2
  /\ pc = "apply_writeback"
  /\ ~frameStart[1].configChanged
  /\ wire # <<>>
  /\ Len(wire[1].req.requests) >= 2

\* The frame's round trip has completed without a failure.
FrameSucceeded ==
  /\ variant = "bulk"
  /\ pc = "apply_writeback"
  /\ frameStart # None
  /\ failures = frameStart[1].failures

\* C26: a config change is not lost when the round trip of its frame fails:
\* after every frame that completes successfully the backend's active
\* config equals the frame side's config.
C26_ConfigReachesBackend == FrameSucceeded => context.gravity = config

\* The handle a response returned for an entity id: that of the last pair
\* with this id.
Returned_for(handles, id) ==
  LET last == CHOOSE i \in 1..Len(handles) :
                /\ handles[i][1] = id
                /\ \A j \in (i + 1)..Len(handles) : handles[j][1] # id
  IN  handles[last][2]

\* C27: the registry only grows (an id registered for a body or a collider
\* stays registered), and right after a create request is processed the
\* lookup of every submitted id gives the handle the response returned for
\* it, the last one if the id repeats.
C27_RegistryOnlyGrows ==
  /\ [](/\ Answered("CreateBodies") =>
             \A i \in 1..Len(LastReq.bodies) :
               context.entity2body[LastReq.bodies[i].id]
                 = Returned_for(lastResp[1].handles, LastReq.bodies[i].id)
        /\ Answered("CreateColliders") =>
             \A i \in 1..Len(LastReq.colliders) :
               context.entity2collider[LastReq.colliders[i].id]
                 = Returned_for(lastResp[1].handles, LastReq.colliders[i].id))
  /\ [][\A e \in Entities :
          /\ context.entity2body[e] # NoHandle => context'.entity2body[e] # NoHandle
          /\ context.entity2collider[e] # NoHandle
               => context'.entity2collider[e] # NoHandle]_vars

C27_Witness ==
  /\ Answered("CreateBodies")
  /\ Len(respLog) = 2
  /\ Len(LastReq.bodies) = 2
  /\ LastReq.bodies[1].id = LastReq.bodies[2].id
  /\ Len(context.bodies) > 2
  /\ context.entity2body[LastReq.bodies[1].id] = Len(context.bodies)

C29_UpdateConfigIdempotent ==
  /\ \A cfg \in Gravities :
       LET once == update_config_backend(cfg, context)
           twice == update_config_backend(cfg, once.context)
       IN  /\ once.response = RespConfigUpdated
           /\ twice.response = RespConfigUpdated
           /\ once.context.gravity = cfg
           /\ twice.context = once.context
           /\ response_of(ReqSimulateStepDelta, twice.context)
                = response_of(ReqSimulateStepDelta, once.context)
  /\ (/\ Len(respLog) = 2
      /\ reqLog[1].requests # <<>>
      /\ reqLog[1].requests[Len(reqLog[1].requests)].type = "UpdateConfig"
      /\ reqLog[2] = ReqBulkRequest(<<reqLog[1].requests[Len(reqLog[1].requests)]>>))
       => /\ context = state_after(reqLog, 1, DefaultContext)
          /\ lastResp[1] = RespBulkResponse(<<RespConfigUpdated>>)

C29_Witness ==
  /\ variant = "bulkpeer"
  /\ Len(respLog) = 2
  /\ Len(reqLog[1].requests) = 3
  /\ reqLog[1].requests[3] = ReqUpdateConfig(0)
  /\ reqLog[2] = ReqBulkRequest(<<ReqUpdateConfig(0)>>)
  /\ context.gravity = 0
  /\ Len(context.bodies) = NumEntities

C32_ConfigurationSelects ==
  /\ (variant = "bulk" /\ ~plugin_configuration.bulk_requests) =>
       \A i \in DOMAIN Sends : IsPlain(Sends[i])
  /\ (payload # None /\ ~plugin_configuration.compression) => payload = bytes

\* C33: writeback never fails on a missing key: every simulation result
\* that has come back to the frame thread holds, as a key, the body handle
\* recorded on every frame-side entity, so result.get(handle).unwrap() does
\* not panic in any frame of the connection.
C33_WritebackNeverPanics ==
  /\ pc # "panicked"
  /\ \A i \in DOMAIN respChan :
       \A j \in DOMAIN ResultsOf(respChan[i]) :
         \A e \in Entities :
           ents[e].body # NoHandle =>
             ents[e].body \in DOMAIN ResultsOf(respChan[i])[j]

C33_Witness ==
  /\ respChan # <<>>
  /\ ResultsOf(Head(respChan)) # <<>>
  /\ \E e \in Entities : Tracked(e)
  /\ failures > 0
  /\ frame = MaxFrames

\* The entity ids the backend registry maps to a body (collider) handle.
BodyEntries == {e \in Entities : context.entity2body[e] # NoHandle}
ColliderEntries == {e \in Entities : context.entity2collider[e] # NoHandle}

\* C34: no orphan bodies: after any frames, failed round trips included, the
\* backend holds as many live bodies as its registry has entity -> body
\* entries, and as many colliders as it has entity -> collider entries.
C34_NoOrphans ==
  /\ Len(context.bodies) = Cardinality(BodyEntries)
  /\ Len(context.colliders) = Cardinality(ColliderEntries)

\* C35: frame/backend handle agreement: the body handle and the collider
\* handle recorded on a frame-side entity are the handles the backend
\* registry holds for the entity's id.
C35_HandlesAgree ==
  \A e \in Entities :
    /\ ents[e].body # NoHandle => context.entity2body[e] = ents[e].body
    /\ ents[e].collider # NoHandle => context.entity2collider[e] = ents[e].collider

C35_Witness ==
  \E e \in Entities :
    /\ ents[e].body # NoHandle
    /\ ents[e].collider # NoHandle
    /\ context.entity2body[e] = ents[e].body
    /\ Len(context.bodies) > Cardinality(BodyEntries)
    /\ failures > 0

\* C36: for every entity with a recorded body handle and a recorded
\* collider handle, the backend collider under that handle is attached as a
\* child of the backend body under that handle, whatever the frames in which
\* the two were created.
C36_RecordedColliderIsChild ==
  \A e \in Entities :
    (ents[e].body # NoHandle /\ ents[e].collider # NoHandle) =>
      /\ ents[e].collider \in DOMAIN context.colliders
      /\ context.colliders[ents[e].collider].parent = ents[e].body

\* The bulk requests written in the frame under way.
BulksSent ==
  {wire[i].req : i \in {k \in DOMAIN wire : wire[k].req.type = "BulkRequest"}}

NonEmpty(req) ==
  /\ req.type = "CreateBodies" => req.bodies # <<>>
  /\ req.type = "CreateColliders" => req.colliders # <<>>

\* C37: in the batching variant every request sent is a BulkRequest of one
\* to four elements, at most one of each kind, whose last element is the
\* one SimulateStep; no CreateBodies or CreateColliders with an empty
\* descriptor list is enqueued or sent.
C37_BulkShape ==
  variant = "bulk" =>
    /\ \A i \in DOMAIN wire : wire[i].req.type = "BulkRequest"
    /\ \A i \in DOMAIN queue : NonEmpty(queue[i])
    /\ \A bulk \in BulksSent :
         LET requests == bulk.requests
         IN  /\ Len(requests) \in 1..4
             /\ Ranked(requests)
             /\ requests[Len(requests)].type = "SimulateStep"
             /\ \A i \in DOMAIN requests : NonEmpty(requests[i])

C37_Witness ==
  /\ variant = "bulk"
  /\ frame = 2
  /\ \E e \in Entities : Tracked(e) /\ ents[e].collider # NoHandle
  /\ wire # <<>>
  /\ wire[1].req.requests = <<ReqSimulateStepDelta>>

\* The messages the backend has taken off the connection, and whether a
\* message is one the loop goes on after: a binary message that decodes.
MessagesRead == SubSeq(wire, 1, Len(wire) - Len(reqChan))
IsRequest(msg) == msg.kind = "binary" /\ msg.decodes

\* C38: the backend writes a response only in reply to a binary message; a
\* close message ends the connection cleanly and a text, ping or pong
\* message ends it with an error, in both cases with no response to that
\* message and with nothing read, processed or answered after it.
C38_OnlyBinaryAnswered ==
  LET read == MessagesRead
      last == read[Len(read)]
  IN  /\ \A i \in 1..(Len(read) - 1) : IsRequest(read[i])
      /\ Len(respChan) + (IF srvPc = "busy" THEN 1 ELSE 0)
           = Len(SelectSeq(read, IsRequest))
      /\ Len(reqLog) = Len(SelectSeq(read, IsRequest))
      /\ srvPc = "closed" <=> (read # <<>> /\ last.kind = "close")
      /\ srvPc = "failed" <=> (read # <<>> /\ ~IsRequest(last) /\ last.kind # "close")
      /\ srvPc \in {"closed", "failed"} => srvCur = None

C38_Witness ==
  /\ Len(MessagesRead) = 2
  /\ IsRequest(MessagesRead[1])
  /\ MessagesRead[1].req.type = "CreateBodies"
  /\ MessagesRead[2].kind = "ping"
  /\ srvPc = "failed"
  /\ Len(respChan) = 1
  /\ context.bodies # <<>>

\* C39: handling a SimulationResult changes nothing but the pose and the
\* velocity of the entities with a recorded body handle: the scale of every
\* entity, its components and its recorded handles, every entity without a
\* body handle, and the request queue are as before.
C39_WritebackFrameCondition ==
  [][ResultHandled =>
       /\ queue' = queue
       /\ \A e \in Entities :
            /\ ents'[e].scale = ents[e].scale
            /\ ents'[e].body = ents[e].body
            /\ ents'[e].collider = ents[e].collider
            /\ ents'[e].comps = ents[e].comps
            /\ ents'[e].alive = ents[e].alive
            /\ ents[e].body = NoHandle => ents'[e] = ents[e]]_vars

C39_Witness ==
  /\ pc = "apply_writeback"
  /\ failures = 0
  /\ \E e, d \in Entities :
       /\ Tracked(e)
       /\ ents[e].scale = e + 1
       /\ ents[e].translation # e
       /\ ents[e].velocity_changed
       /\ ents[d].alive
       /\ ents[d].body = NoHandle
       /\ ents[d].collider # NoHandle
       /\ ents[d].translation = d


====
